---- MODULE Spec2Model ----
(***************************************************************************)
(* A model of the io-engine crate: the AIO driver (submit / poll threads,  *)
(* slot table, free-slot channel, shutdown sentinel), the io_uring driver  *)
(* (submit / complete threads), the worker sink, the request record's      *)
(* completion fan-out and the merge submitter.                             *)
(***************************************************************************)
EXTENDS Integers, Sequences, FiniteSets, TLC

(***************************************************************************)
(* Bounds of the model.                                                    *)
(***************************************************************************)
\* depth of the AIO context used in the AIO driver model
Depth == 2
\* number of user events a producer hands to the AIO engine
NumEvents == 3
\* buffer length (in abstract bytes) of every user event of the driver models
EvLen == 2
\* number of environment faults (EINTR, hard io_submit / io_getevents errors)
MaxFaults == 1
\* errno the modelled kernel reports for a failed request or syscall
KernelErrno == 5
\* number of equally sized blocks of the write-then-read round trip
NumBlocks == 3
\* size in bytes of one block of the round trip (io_size)
IoSize == 2
\* largest buffer of an event handed to the merge submitter by any producer
MaxSize == 2
\* largest offset of an event handed to the merge submitter by any producer
MaxOff == 2
\* number of events the unconstrained producer hands to the merge submitter
MaxAdds == 3
\* largest number of worker threads of an IOWorkers pool
MaxWorkers == 2
\* number of equally sized events of a sequence handed to the merge submitter
MaxRun == 4
\* number of block offsets such a sequence draws from
RunBlocks == 5
\* number of set_copied / set_error calls made on one event record
MaxCalls == 3
\* number of events whose callback hands them back to the io_uring engine
\* after a partial transfer
MaxResume == 1
\* number of producer threads calling IOContext::submit at the same time
NumProducers == 2
\* number of events these producers submit in all
WakeEvents == 2
\* width in bits of the word the usize counters of that model wrap at
UsizeBits == 16

(***************************************************************************)
(* Program constants.                                                      *)
(***************************************************************************)
I32_MIN == -2147483647 - 1
EINVAL == 22
EINTR == 4
ENOMEM == 12

Events == 1..NumEvents
NoEvent == 0
ExitEvent == NumEvents + 1
SlotIds == 0..(Depth - 1)

Min(a, b) == IF a < b THEN a ELSE b

RECURSIVE SeqSum(_)
SeqSum(s) == IF s = <<>> THEN 0 ELSE Head(s) + SeqSum(Tail(s))

SeqToSet(s) == {s[i] : i \in 1..Len(s)}

VARIABLES
    \* ---- AIO engine: IoSharedContext / IOContext ----
    running,            \* ctx.running
    dropped,            \* the IOContext handle has been dropped
    prio_queue, read_queue, write_queue,
    noti,               \* tokens in the capacity-1 notification channel
    free_slots_count,   \* ctx.free_slots_count
    \* ---- AIO driver ----
    free_chan,          \* the free-slot channel (s_free / r_free)
    slots,              \* AioInner.slots
    iocbs,              \* worker_submit's batch of filled slots
    submit_pc, hold, phase, got, last_write, done,
    kernel,             \* slots whose request the kernel holds
    cq,                 \* completions not yet reaped by io_getevents
    poll_pc, infos,
    ctx_destroyed,      \* io_destroy has been called
    faults,
    \* ---- worker sink of the AIO engine and what callbacks observed ----
    cb_queue,           \* IOWorkers channel
    ev_res,             \* result recorded in each event
    cb_count,           \* number of callback invocations per event
    exit_seen,          \* the poll thread has seen the sentinel completion
    sink_sent,          \* everything ever handed to the worker sink, in order
    via,                \* the channel_type each event was submitted with
    \* ---- io_uring engine ----
    u_queue,            \* ctx.queue: the ingress channel
    u_closed,           \* every sender of the ingress channel is dropped
    u_submit_pc, u_events,
    u_sq,               \* submission queue entries not yet taken by the kernel
    u_kernel,           \* entries the kernel holds
    u_cq,               \* completion queue
    u_complete_pc,
    u_faults,
    u_cb_queue,         \* the worker sink's channel
    u_res,              \* result recorded in each event
    u_cb_count,         \* number of callback invocations per event
    u_sent,             \* everything ever handed to the worker sink, in order
    u_dropped_ev,       \* events freed by the submit thread on "SQ full"
    \* ---- merge submitter (MergeSubmitter / MergeBuffer) ----
    producer,           \* which producer drives the submitter ("done": it has finished)
    merge_size_limit,   \* MergeBuffer.merge_size_limit
    m_action,           \* MergeSubmitter.action
    merged_events,      \* MergeBuffer.merged_events
    merged_offset,      \* MergeBuffer.merged_offset
    merged_data_size,   \* MergeBuffer.merged_data_size
    m_chan,             \* the channel behind MergeSubmitter.sender
    m_closed,           \* the receiving side of that channel is gone
    m_ret,              \* what the last add_event / flush call returned
    m_called,           \* ids of the events that call invoked callback() on, in order
    m_added,            \* ids of the events the producer has created
    m_faults,           \* allocation failures so far
    m_file,             \* content of the file behind fd
    all_full,           \* every request so far was transferred in full
    \* ---- worker sink behind the merge submitter's engine ----
    w_mode,             \* "Inline" or "IOWorkers"
    w_workers,          \* IOWorkers::new(workers)
    w_chan,             \* the IOWorkers channel
    w_hold,             \* the event each worker thread has received
    w_done,             \* ids of the user events passed to Worker::done
    cb_log,             \* per event: callback invocations, result and buffer seen
    fanned,             \* the last master callback_merged fanned out
    \* ---- one request record used on its own (tasks.rs) ----
    t_res,              \* IOEvent_.res
    t_calls,            \* the set_copied / set_error calls made on it, in order
    t_ret,              \* what the getter called after the last of them returned
    \* ---- IOContext::submit and the submit thread, statement by statement ----
    q_pc,               \* per producer: its position inside IOContext::submit
    q_ev,               \* per producer: the event it is submitting
    q_ch,               \* per producer: the channel_type of that call
    q_next,             \* number of submit calls started
    q_prio_count, q_read_count, q_write_count, q_total_count,
    q_prio, q_read, q_write,    \* the three SegQueues
    q_noti,             \* tokens in the capacity-1 notification channel
    q_spc,              \* the submit thread's position
    q_stage,            \* which queue poll_request_from_queues is at
    q_got,              \* its `got` flag
    q_last_write,       \* worker_submit's last_write
    q_len,              \* slots.len(): events in the batch being filled
    q_popped,           \* the event popped whose counters are being decremented
    q_taken             \* the events the submit thread has dequeued, in order

aioVars == <<running, dropped, prio_queue, read_queue, write_queue, noti,
             free_slots_count, free_chan, slots, iocbs, submit_pc, hold, phase,
             got, last_write, done, kernel, cq, poll_pc, infos, ctx_destroyed,
             faults, cb_queue, ev_res, cb_count, exit_seen, sink_sent, via>>

\* groups used in UNCHANGED clauses
ctxQ == <<prio_queue, read_queue, write_queue, noti>>
submitLocal == <<iocbs, submit_pc, hold, phase, got, last_write, done>>
kern == <<kernel, cq>>
pollLocal == <<poll_pc, infos, ctx_destroyed>>
sinkV == <<cb_queue, ev_res, cb_count, sink_sent>>

uringVars == <<u_queue, u_closed, u_submit_pc, u_events, u_sq, u_kernel, u_cq,
               u_complete_pc, u_faults, u_cb_queue, u_res, u_cb_count, u_sent,
               u_dropped_ev>>

mergeVars == <<producer, merge_size_limit, m_action, merged_events, merged_offset,
               merged_data_size, m_chan, m_closed, m_ret, m_called, m_added,
               m_faults, m_file, all_full, w_mode, w_workers, w_chan, w_hold, w_done,
               cb_log, fanned>>

taskVars == <<t_res, t_calls, t_ret>>
wakeVars == <<q_pc, q_ev, q_ch, q_next, q_prio_count, q_read_count, q_write_count,
              q_total_count, q_prio, q_read, q_write, q_noti, q_spc, q_stage,
              q_got, q_last_write, q_len, q_popped, q_taken>>

notAio == <<uringVars, mergeVars, taskVars, wakeVars>>
notUring == <<aioVars, mergeVars, taskVars, wakeVars>>
notMerge == <<aioVars, uringVars, taskVars, wakeVars>>

vars == <<aioVars, uringVars, mergeVars, taskVars, wakeVars>>

(***************************************************************************)
(* Request record: result recording (tasks.rs).                            *)
(***************************************************************************)
\* a set_error that stores a positive errno as it is
SetError_Raw(errno) == IF errno = 0 THEN EINVAL ELSE errno

\* a set_error that stores errno 0 as it is
SetError_KeepsZero(errno) == IF errno > 0 THEN -errno ELSE errno

\* IOEvent::set_error: 0 becomes EINVAL, a positive errno is negated
SetError(errno) ==
    LET e1 == IF errno = 0 THEN EINVAL ELSE errno
    IN  IF e1 > 0 THEN -e1 ELSE e1

\* a set_copied that stores the last count instead of accumulating
SetCopied_Overwrite(res, len) == len

\* IOEvent::set_copied on a record whose result is res
SetCopied(res, len) == IF res = I32_MIN THEN len ELSE res + len

IsDone(res) == res # I32_MIN

\* IOEvent::get_result: Ok(res), Err(errno) or a panic on a record not done
GetResult(res) ==
    IF res >= 0 THEN [ok |-> "Ok", val |-> res]
    ELSE IF res = I32_MIN THEN [ok |-> "panic", val |-> 0]
    ELSE [ok |-> "Err", val |-> -res]

\* IOEvent::get_write_result: Ok(()), Err(errno) or a panic
GetWriteResult(res) ==
    IF res >= 0 THEN [ok |-> "Ok", val |-> 0]
    ELSE IF res = I32_MIN THEN [ok |-> "panic", val |-> 0]
    ELSE [ok |-> "Err", val |-> -res]

(***************************************************************************)
(* A request record used on its own, as in test_ioevent.                   *)
(***************************************************************************)
NoRet == [op |-> "none", ok |-> "none", val |-> 0]

\* IOEvent::new
InitTask ==
    /\ t_res = I32_MIN
    /\ t_calls = <<>>
    /\ t_ret = NoRet

\* event.set_copied(n)
TaskSetCopied(n) ==
    /\ Len(t_calls) < MaxCalls
    /\ t_ret.op # "get_write_result"
    /\ t_res' = SetCopied(t_res, n)
    /\ t_calls' = Append(t_calls, [op |-> "set_copied", arg |-> n])
    /\ t_ret' = NoRet
    /\ UNCHANGED <<aioVars, uringVars, mergeVars, wakeVars>>

\* event.set_error(errno)
TaskSetError(errno) ==
    /\ Len(t_calls) < MaxCalls
    /\ t_ret.op # "get_write_result"
    /\ t_res' = SetError(errno)
    /\ t_calls' = Append(t_calls, [op |-> "set_error", arg |-> errno])
    /\ t_ret' = NoRet
    /\ UNCHANGED <<aioVars, uringVars, mergeVars, wakeVars>>

\* event.get_result(), or event.get_write_result(), which consumes the event
TaskGet(op) ==
    /\ t_ret.op # "get_write_result"
    /\ t_ret' = [op |-> op,
                 ok |-> IF op = "get_result" THEN GetResult(t_res).ok
                        ELSE GetWriteResult(t_res).ok,
                 val |-> IF op = "get_result" THEN GetResult(t_res).val
                         ELSE GetWriteResult(t_res).val]
    /\ UNCHANGED <<aioVars, uringVars, mergeVars, wakeVars, t_res, t_calls>>

\* the calls made on the record: byte counts up to a buffer of EvLen, and the
\* errnos the crate passes to set_error
NextTask ==
    \/ \E n \in 0..EvLen : TaskSetCopied(n)
    \/ \E errno \in {0, EINTR, KernelErrno, ENOMEM, EINVAL} : TaskSetError(errno)
    \/ \E op \in {"get_result", "get_write_result"} : TaskGet(op)

(***************************************************************************)
(* AIO engine: construction.                                               *)
(***************************************************************************)
\* IOEvent.offset of event e as its producer set it: the events lie one after
\* the other in the file; the exit signal reads at offset 0
EventOffset(e) == IF e \in Events THEN (e - 1) * EvLen ELSE 0

EmptySlot == [event |-> NoEvent, nbytes |-> 0, buf |-> 0, offset |-> 0, exit_flag |-> FALSE]

\* a start that sends the same slot id depth times
InitFreeChan_SameId == [i \in 1..Depth |-> 0]

\* AioDriver::start: the free-slot channel receives the ids 0 .. depth - 1
InitFreeChan == [i \in 1..Depth |-> i - 1]

InitAio ==
    /\ running = TRUE
    /\ dropped = FALSE
    /\ prio_queue = <<>> /\ read_queue = <<>> /\ write_queue = <<>>
    /\ noti = 0
    /\ free_slots_count = Depth
    /\ free_chan = InitFreeChan
    /\ slots = [s \in SlotIds |-> EmptySlot]
    /\ iocbs = <<>>
    /\ submit_pc = "top" /\ hold = NoEvent /\ phase = 0 /\ got = FALSE
    /\ last_write = FALSE /\ done = 0
    /\ kernel = {} /\ cq = <<>>
    /\ poll_pc = "getevents" /\ infos = <<>>
    /\ ctx_destroyed = FALSE
    /\ faults = 0
    /\ cb_queue = <<>>
    /\ ev_res = [e \in Events |-> I32_MIN]
    /\ cb_count = [e \in Events |-> 0]
    /\ exit_seen = FALSE
    /\ sink_sent = <<>>
    /\ via = [e \in Events |-> "none"]

total_count == Len(prio_queue) + Len(read_queue) + Len(write_queue)

\* events the producer has not handed to the engine yet
Queued == SeqToSet(prio_queue) \cup SeqToSet(read_queue) \cup SeqToSet(write_queue)
Held == SeqToSet(sink_sent) \cup {slots[s].event : s \in SlotIds} \cup {hold}
Unsent == {e \in Events : e \notin Queued /\ e \notin Held}

\* the action of event e: odd events read, even events write
ActionOf(e) == IF e % 2 = 1 THEN "Read" ELSE "Write"

(***************************************************************************)
(* IOContext::submit and IOContext::drop (context.rs).                     *)
(***************************************************************************)
Submit(e, ch) ==
    /\ ~dropped
    /\ e \in Unsent
    /\ \A e2 \in Unsent : e <= e2
    /\ prio_queue' = IF ch = "Prio" THEN Append(prio_queue, e) ELSE prio_queue
    /\ read_queue' = IF ch = "Read" THEN Append(read_queue, e) ELSE read_queue
    /\ write_queue' = IF ch = "Write" THEN Append(write_queue, e) ELSE write_queue
    /\ noti' = 1
    /\ via' = [via EXCEPT ![e] = ch]
    /\ UNCHANGED <<notAio, running, dropped, free_slots_count, free_chan, slots,
                   submitLocal, kern, pollLocal, faults, sinkV, exit_seen>>

DropContext ==
    /\ ~dropped
    /\ dropped' = TRUE
    /\ running' = FALSE
    /\ UNCHANGED <<notAio, ctxQ, free_slots_count, free_chan, slots, submitLocal, kern,
                   pollLocal, faults, sinkV, exit_seen, via>>

\* a running_count that subtracts without looking at the counter first
running_count_NoClamp == Depth - free_slots_count

\* IOContext::running_count: depth - free_slots_count, 0 when the counter is
\* above depth (a counter below 0 is a wrapped usize, far above depth)
running_count ==
    IF free_slots_count < 0 \/ free_slots_count > Depth
    THEN 0
    ELSE Depth - free_slots_count

(***************************************************************************)
(* poll_request_from_queues (common.rs): which queue the next pop takes.   *)
(* phase 0 is the prio probe, 1 and 2 the two data queues of the pass;     *)
(* last_write is flipped on entering phase 1.  The result is               *)
(* [pop |-> queue name or "none", phase, lw, got].                         *)
(***************************************************************************)
QueueOf(name) ==
    IF name = "prio" THEN prio_queue
    ELSE IF name = "read" THEN read_queue ELSE write_queue

\* after the flip: last_write = TRUE probes write then read, FALSE read then write
PassOrder(lw) == IF lw THEN <<"write", "read">> ELSE <<"read", "write">>

RECURSIVE Scan(_, _, _)
Scan(ph, lw, g) ==
    IF ph = 0 THEN
        IF prio_queue # <<>>
        THEN [pop |-> "prio", phase |-> 0, lw |-> lw, got |-> TRUE]
        ELSE Scan(1, ~lw, g)
    ELSE IF QueueOf(PassOrder(lw)[ph]) # <<>>
        THEN [pop |-> PassOrder(lw)[ph], phase |-> ph, lw |-> lw, got |-> TRUE]
    ELSE IF ph = 1 THEN Scan(2, lw, g)
    ELSE IF g THEN Scan(0, lw, FALSE)
    ELSE [pop |-> "none", phase |-> 0, lw |-> lw, got |-> FALSE]

(***************************************************************************)
(* AioSlot::fill_slot (aio.rs).                                            *)
(***************************************************************************)
FillSlot(e) ==
    [event |-> e,
     nbytes |-> IF e = ExitEvent THEN 0 ELSE EvLen,
     buf |-> 0,
     offset |-> EventOffset(e),
     exit_flag |-> (e = ExitEvent)]

(***************************************************************************)
(* worker_submit (aio.rs).                                                 *)
(***************************************************************************)
\* top of 'outer with nothing pending: a notification token is received
SubmitWakeup ==
    /\ submit_pc = "top"
    /\ iocbs = <<>> /\ total_count = 0
    /\ noti = 1
    /\ noti' = 0
    /\ submit_pc' = "fill" /\ phase' = 0 /\ got' = FALSE
    /\ UNCHANGED <<notAio, running, dropped, prio_queue, read_queue, write_queue,
                   free_slots_count, free_chan, slots, iocbs, hold, last_write,
                   done, kern, pollLocal, faults, sinkV, exit_seen, via>>

\* top of 'outer with events pending: the receive is skipped
SubmitSkipWait ==
    /\ submit_pc = "top"
    /\ total_count > 0
    /\ submit_pc' = "fill" /\ phase' = 0 /\ got' = FALSE
    /\ UNCHANGED <<notAio, running, dropped, ctxQ, free_slots_count, free_chan, slots,
                   iocbs, hold, last_write, done, kern, pollLocal, faults,
                   sinkV, exit_seen, via>>

\* the notification channel is empty and closed: take the exit path
SubmitClosed ==
    /\ submit_pc = "top"
    /\ iocbs = <<>> /\ total_count = 0
    /\ noti = 0 /\ dropped
    /\ submit_pc' = "exit_slot"
    /\ UNCHANGED <<notAio, running, dropped, ctxQ, free_slots_count, free_chan, slots,
                   iocbs, hold, phase, got, last_write, done, kern, pollLocal,
                   faults, sinkV, exit_seen, via>>

\* poll_request_from_queues pops the next event (before AioSlotCollection::push)
SubmitPop ==
    /\ submit_pc = "fill"
    /\ Len(iocbs) < Depth
    /\ LET r == Scan(phase, last_write, got) IN
        /\ r.pop # "none"
        /\ hold' = Head(QueueOf(r.pop))
        /\ prio_queue' = IF r.pop = "prio" THEN Tail(prio_queue) ELSE prio_queue
        /\ read_queue' = IF r.pop = "read" THEN Tail(read_queue) ELSE read_queue
        /\ write_queue' = IF r.pop = "write" THEN Tail(write_queue) ELSE write_queue
        /\ phase' = r.phase /\ got' = r.got /\ last_write' = r.lw
    /\ submit_pc' = "push"
    /\ UNCHANGED <<notAio, running, dropped, noti, free_slots_count, free_chan, slots,
                   iocbs, done, kern, pollLocal, faults, sinkV, exit_seen, via>>

\* AioSlotCollection::push: a blocking receive on the free-slot channel
SubmitPush ==
    /\ submit_pc = "push"
    /\ free_chan # <<>>
    /\ LET slot_id == Head(free_chan) IN
        /\ slots' = [slots EXCEPT ![slot_id] = FillSlot(hold)]
        /\ iocbs' = Append(iocbs, slot_id)
    /\ free_chan' = Tail(free_chan)
    /\ hold' = NoEvent
    /\ submit_pc' = "fill"
    /\ UNCHANGED <<notAio, running, dropped, ctxQ, free_slots_count, phase, got,
                   last_write, done, kern, pollLocal, faults, sinkV, exit_seen, via>>

\* poll_request_from_queues returns: quota reached or nothing left in a pass
SubmitFillDone ==
    /\ submit_pc = "fill"
    /\ LET r == Scan(phase, last_write, got) IN
        /\ Len(iocbs) >= Depth \/ r.pop = "none"
        /\ last_write' = IF Len(iocbs) >= Depth THEN last_write ELSE r.lw
    /\ phase' = 0 /\ got' = FALSE
    /\ done' = 0
    /\ submit_pc' = IF iocbs = <<>> THEN "top" ELSE "sub"
    /\ UNCHANGED <<notAio, running, dropped, ctxQ, free_slots_count, free_chan, slots,
                   iocbs, hold, kern, pollLocal, faults, sinkV, exit_seen, via>>

left == Len(iocbs) - done

\* 'submit: free_slots_count.fetch_sub(left)
SubmitFetchSub ==
    /\ submit_pc = "sub"
    /\ free_slots_count' = free_slots_count - left
    /\ submit_pc' = "io"
    /\ UNCHANGED <<notAio, running, dropped, ctxQ, free_chan, slots, iocbs, hold, phase,
                   got, last_write, done, kern, pollLocal, faults, sinkV,
                   exit_seen, via>>

\* a submit loop that keeps the whole fetch_sub after a partial accept
SubmitIoAccept_NoAddBack(k) ==
    /\ submit_pc = "io"
    /\ k \in 1..left
    /\ kernel' = kernel \cup {iocbs[i] : i \in (done + 1)..(done + k)}
    /\ IF k = left
       THEN /\ iocbs' = <<>> /\ done' = 0
            /\ submit_pc' = "top"
       ELSE /\ done' = done + k
            /\ submit_pc' = "sub"
            /\ UNCHANGED iocbs
    /\ UNCHANGED <<notAio, running, dropped, ctxQ, free_slots_count, free_chan, slots,
                   hold, phase, got, last_write, cq, pollLocal, faults, sinkV,
                   exit_seen, via>>

\* io_submit accepts the first k of the left control blocks (k = left: all)
SubmitIoAccept(k) ==
    /\ submit_pc = "io"
    /\ k \in 1..left
    /\ kernel' = kernel \cup {iocbs[i] : i \in (done + 1)..(done + k)}
    /\ IF k = left
       THEN /\ iocbs' = <<>> /\ done' = 0
            /\ submit_pc' = "top"
            /\ UNCHANGED free_slots_count
       ELSE /\ free_slots_count' = free_slots_count + (left - k)
            /\ done' = done + k
            /\ submit_pc' = "sub"
            /\ UNCHANGED iocbs
    /\ UNCHANGED <<notAio, running, dropped, ctxQ, free_chan, slots, hold, phase, got,
                   last_write, cq, pollLocal, faults, sinkV, exit_seen, via>>

\* io_submit fails: EINTR retries, any other errno abandons the tail
SubmitIoFail(errno) ==
    /\ submit_pc = "io"
    /\ faults < MaxFaults
    /\ faults' = faults + 1
    /\ free_slots_count' = free_slots_count + left
    /\ IF errno = EINTR
       THEN /\ submit_pc' = "sub"
            /\ UNCHANGED <<iocbs, done>>
       ELSE /\ submit_pc' = "top"
            /\ iocbs' = <<>> /\ done' = 0
    /\ UNCHANGED <<notAio, running, dropped, ctxQ, free_chan, slots, hold, phase, got,
                   last_write, kern, pollLocal, sinkV, exit_seen, via>>

\* exit path: acquire a slot for the exit signal and fill it
SubmitExitSlot ==
    /\ submit_pc = "exit_slot"
    /\ free_chan # <<>>
    /\ LET slot_id == Head(free_chan) IN
        /\ slots' = [slots EXCEPT ![slot_id] = FillSlot(ExitEvent)]
        /\ iocbs' = <<slot_id>>
    /\ free_chan' = Tail(free_chan)
    /\ submit_pc' = "exit_io"
    /\ UNCHANGED <<notAio, running, dropped, ctxQ, free_slots_count, hold, phase, got,
                   last_write, done, kern, pollLocal, faults, sinkV, exit_seen, via>>

\* exit path: io_submit of the exit signal (a failure is only logged)
SubmitExitIo(ok) ==
    /\ submit_pc = "exit_io"
    /\ IF ok
       THEN /\ kernel' = kernel \cup {iocbs[1]}
            /\ UNCHANGED faults
       ELSE /\ faults < MaxFaults
            /\ faults' = faults + 1
            /\ UNCHANGED kernel
    /\ submit_pc' = "exit_sub"
    /\ UNCHANGED <<notAio, running, dropped, ctxQ, free_slots_count, free_chan, slots,
                   iocbs, hold, phase, got, last_write, done, cq, pollLocal,
                   sinkV, exit_seen, via>>

\* exit path: free_slots_count.fetch_sub(1), then the thread returns
SubmitExitSub ==
    /\ submit_pc = "exit_sub"
    /\ free_slots_count' = free_slots_count - 1
    /\ iocbs' = <<>>
    /\ submit_pc' = "done"
    /\ UNCHANGED <<notAio, running, dropped, ctxQ, free_chan, slots, hold, phase, got,
                   last_write, done, kern, pollLocal, faults, sinkV, exit_seen, via>>

(***************************************************************************)
(* The kernel side of the AIO context: a request the kernel holds          *)
(* completes with res bytes (0 <= res <= requested) or with -errno; the    *)
(* exit signal is a zero-length read of /dev/null and completes with 0.    *)
(***************************************************************************)
KernelComplete(s, res) ==
    /\ s \in kernel
    /\ ~ctx_destroyed
    /\ IF slots[s].exit_flag
       THEN res = 0
       ELSE res \in {-KernelErrno} \cup (0..slots[s].nbytes)
    /\ kernel' = kernel \ {s}
    /\ cq' = Append(cq, [data |-> s, res |-> res])
    /\ UNCHANGED <<notAio, running, dropped, ctxQ, free_slots_count, free_chan, slots,
                   submitLocal, pollLocal, faults, sinkV, exit_seen, via>>

(***************************************************************************)
(* worker_poll (aio.rs).                                                   *)
(***************************************************************************)
\* io_getevents returns the available completions (at least 1, at most depth),
\* then free_slots_count.fetch_add(result)
PollGetEvents ==
    /\ poll_pc = "getevents"
    /\ cq # <<>>
    /\ LET n == Min(Len(cq), Depth) IN
        /\ infos' = SubSeq(cq, 1, n)
        /\ cq' = SubSeq(cq, n + 1, Len(cq))
        /\ free_slots_count' = free_slots_count + n
    /\ poll_pc' = "process"
    /\ UNCHANGED <<notAio, running, dropped, ctxQ, free_chan, slots, submitLocal, kernel,
                   ctx_destroyed, faults, sinkV, exit_seen, via>>

\* io_getevents returns 0: exit if not running and every slot is counted free
PollNoEvents ==
    /\ poll_pc = "getevents"
    /\ cq = <<>>
    /\ IF ~running /\ free_slots_count = Depth
       THEN poll_pc' = "exited" /\ ctx_destroyed' = TRUE
       ELSE UNCHANGED <<poll_pc, ctx_destroyed>>
    /\ UNCHANGED <<notAio, running, dropped, ctxQ, free_slots_count, free_chan, slots,
                   submitLocal, kern, infos, faults, sinkV, exit_seen, via>>

\* io_getevents fails: EINTR retries; another errno ends the thread when the
\* context is not running
PollGetEventsFail(errno) ==
    /\ poll_pc = "getevents"
    /\ faults < MaxFaults
    /\ faults' = faults + 1
    /\ IF errno # EINTR /\ ~running
       THEN poll_pc' = "exited" /\ ctx_destroyed' = TRUE
       ELSE UNCHANGED <<poll_pc, ctx_destroyed>>
    /\ UNCHANGED <<notAio, running, dropped, ctxQ, free_slots_count, free_chan, slots,
                   submitLocal, kern, infos, sinkV, exit_seen, via>>

\* IOEvent::set_ok on an event whose buffer holds len bytes: success is
\* recorded as the total transferred, the whole buffer
SetOk(len) == len

\* a poll thread that takes every positive completion for a complete one
VerifyResult_NoResume(slot, info_res, resub) ==
    IF slot.exit_flag THEN
        [slot |-> slot, sent |-> NoEvent, res |-> 0, resubmit |-> FALSE,
         handled |-> TRUE, exit |-> TRUE]
    ELSE IF info_res <= 0 THEN
        [slot |-> [slot EXCEPT !.event = NoEvent], sent |-> slot.event,
         res |-> SetError(-info_res), resubmit |-> FALSE,
         handled |-> TRUE, exit |-> FALSE]
    ELSE
        [slot |-> [slot EXCEPT !.event = NoEvent], sent |-> slot.event,
         res |-> SetOk(EvLen), resubmit |-> FALSE, handled |-> TRUE, exit |-> FALSE]

\* what verify_result_for_shutdown / verify_result do with one completion:
\* [slot, sent (event handed to cb_workers or NoEvent), res (its result),
\*  resubmit, handled (the return value), exit (the exit flag was seen)]
\* resub is the outcome of the single-item io_submit of a resume:
\* TRUE accepted, FALSE failed with KernelErrno.
VerifyResult(slot, info_res, resub) ==
    IF slot.exit_flag THEN
        [slot |-> slot, sent |-> NoEvent, res |-> 0, resubmit |-> FALSE,
         handled |-> TRUE, exit |-> TRUE]
    ELSE IF info_res <= 0 THEN
        \* AioSlot::set_error(-res)
        [slot |-> [slot EXCEPT !.event = NoEvent], sent |-> slot.event,
         res |-> SetError(-info_res), resubmit |-> FALSE,
         handled |-> TRUE, exit |-> FALSE]
    ELSE IF slot.nbytes <= info_res THEN
        \* AioSlot::set_written: everything requested was transferred
        [slot |-> [slot EXCEPT !.event = NoEvent], sent |-> slot.event,
         res |-> SetOk(EvLen), resubmit |-> FALSE, handled |-> TRUE, exit |-> FALSE]
    ELSE IF resub THEN
        \* short transfer: rebias and resubmit the same slot
        [slot |-> [slot EXCEPT !.nbytes = @ - info_res, !.buf = @ + info_res],
         sent |-> NoEvent, res |-> 0, resubmit |-> TRUE,
         handled |-> FALSE, exit |-> FALSE]
    ELSE
        \* the resubmit failed: AioSlot::set_error(errno of io_submit)
        [slot |-> [slot EXCEPT !.nbytes = @ - info_res, !.buf = @ + info_res,
                               !.event = NoEvent],
         sent |-> slot.event, res |-> SetError(KernelErrno), resubmit |-> FALSE,
         handled |-> TRUE, exit |-> FALSE]

\* a completed event is only sent when the slot still holds one
SendsEvent(v) == v.sent # NoEvent

\* the test that follows a completion for which verify_result_for_shutdown
\* returned true; its `break` leaves the `for info in &infos` loop
BreaksBatch(handled, run, free) == handled /\ ~run /\ free = Depth

\* the loop body of `for info in &infos`: when the test above holds the rest of
\* the batch is skipped and the outer loop calls io_getevents again
PollProcess(resub) ==
    /\ poll_pc = "process"
    /\ LET info == Head(infos)
           v == VerifyResult(slots[info.data], info.res, resub)
           run2 == IF v.exit THEN FALSE ELSE running
       IN
        /\ resub = FALSE =>
              /\ ~slots[info.data].exit_flag
              /\ info.res > 0 /\ slots[info.data].nbytes > info.res
              /\ faults < MaxFaults
        /\ faults' = IF resub THEN faults ELSE faults + 1
        /\ slots' = [slots EXCEPT ![info.data] = v.slot]
        /\ running' = run2
        /\ exit_seen' = (exit_seen \/ v.exit)
        /\ kernel' = IF v.resubmit THEN kernel \cup {info.data} ELSE kernel
        /\ IF SendsEvent(v)
           THEN /\ ev_res' = [ev_res EXCEPT ![v.sent] = v.res]
                /\ cb_queue' = Append(cb_queue, v.sent)
                /\ sink_sent' = Append(sink_sent, v.sent)
           ELSE UNCHANGED <<ev_res, cb_queue, sink_sent>>
        /\ IF BreaksBatch(v.handled, run2, free_slots_count)
           THEN /\ infos' = <<>>
                /\ poll_pc' = "getevents"
           ELSE /\ infos' = Tail(infos)
                /\ poll_pc' = IF Tail(infos) = <<>> THEN "getevents" ELSE "process"
    /\ UNCHANGED <<notAio, dropped, ctxQ, free_slots_count, free_chan, submitLocal, cq,
                   ctx_destroyed, cb_count, via>>

(***************************************************************************)
(* IOWorkers (callback_worker.rs): a worker thread receives a finished     *)
(* event and runs its callback.                                            *)
(***************************************************************************)
WorkerRecv ==
    /\ cb_queue # <<>>
    /\ cb_count' = [cb_count EXCEPT ![Head(cb_queue)] = @ + 1]
    /\ cb_queue' = Tail(cb_queue)
    /\ UNCHANGED <<notAio, running, dropped, ctxQ, free_slots_count, free_chan, slots,
                   submitLocal, kern, pollLocal, faults, ev_res, sink_sent,
                   exit_seen, via>>

(***************************************************************************)
(* The AIO engine.                                                         *)
(***************************************************************************)
NextAio ==
    \/ \E e \in Events : \E ch \in {"Prio", ActionOf(e)} : Submit(e, ch)
    \/ DropContext
    \/ SubmitWakeup
    \/ SubmitSkipWait
    \/ SubmitClosed
    \/ SubmitPop
    \/ SubmitPush
    \/ SubmitFillDone
    \/ SubmitFetchSub
    \/ \E k \in 1..Depth : SubmitIoAccept(k)
    \/ \E errno \in {EINTR, KernelErrno} : SubmitIoFail(errno)
    \/ SubmitExitSlot
    \/ \E ok \in BOOLEAN : SubmitExitIo(ok)
    \/ SubmitExitSub
    \/ \E s \in SlotIds : \E res \in (-KernelErrno)..EvLen : KernelComplete(s, res)
    \/ PollGetEvents
    \/ PollNoEvents
    \/ \E errno \in {EINTR, KernelErrno} : PollGetEventsFail(errno)
    \/ \E resub \in BOOLEAN : PollProcess(resub)
    \/ WorkerRecv

(***************************************************************************)
(* The ingress of the queue-based context, statement by statement:         *)
(* IOContext::submit (context.rs), the wait at the top of worker_submit    *)
(* (aio.rs) and poll_request_from_queues (common.rs).  Every atomic        *)
(* operation of the code is one step.  The batch a drain has filled is     *)
(* handed on at once: a free slot is at hand for every event popped.       *)
(***************************************************************************)
Producers == 1..NumProducers
UsizeMod == 2 ^ UsizeBits

\* AtomicUsize::fetch_add / fetch_sub wrap around
FetchAdd(x, n) == (x + n) % UsizeMod
FetchSub(x, n) == (x - n + UsizeMod) % UsizeMod

\* a try_send that loses the token
TrySend_Lost(tokens) == tokens

\* Sender::try_send on the channel of capacity 1: a token is in the channel
\* afterwards, whether the call succeeded or found it full
TrySend(tokens) == 1

InitWake ==
    /\ q_pc = [p \in Producers |-> "idle"]
    /\ q_ev = [p \in Producers |-> 0]
    /\ q_ch = [p \in Producers |-> "none"]
    /\ q_next = 0
    /\ q_prio_count = 0 /\ q_read_count = 0 /\ q_write_count = 0 /\ q_total_count = 0
    /\ q_prio = <<>> /\ q_read = <<>> /\ q_write = <<>>
    /\ q_noti = 0
    /\ q_spc = "top" /\ q_stage = 0 /\ q_got = FALSE /\ q_last_write = FALSE
    /\ q_len = 0 /\ q_popped = 0
    /\ q_taken = <<>>

\* the name of the queue a channel_type goes to
QueueName(ch) == IF ch = "Prio" THEN "prio" ELSE IF ch = "Read" THEN "read" ELSE "write"

\* submit: the fetch_add on the counter of the chosen queue
PCount(p, ch) ==
    /\ q_pc[p] = "idle"
    /\ q_next < WakeEvents
    /\ q_next' = q_next + 1
    /\ q_ev' = [q_ev EXCEPT ![p] = q_next + 1]
    /\ q_ch' = [q_ch EXCEPT ![p] = ch]
    /\ q_prio_count' = IF ch = "Prio" THEN FetchAdd(q_prio_count, 1) ELSE q_prio_count
    /\ q_read_count' = IF ch = "Read" THEN FetchAdd(q_read_count, 1) ELSE q_read_count
    /\ q_write_count' = IF ch = "Write" THEN FetchAdd(q_write_count, 1) ELSE q_write_count
    /\ q_pc' = [q_pc EXCEPT ![p] = "push"]
    /\ UNCHANGED <<aioVars, uringVars, mergeVars, taskVars, q_total_count, q_prio,
                   q_read, q_write, q_noti, q_spc, q_stage, q_got, q_last_write,
                   q_len, q_popped, q_taken>>

\* submit: the push onto the queue
PPush(p) ==
    /\ q_pc[p] = "push"
    /\ q_prio' = IF q_ch[p] = "Prio" THEN Append(q_prio, q_ev[p]) ELSE q_prio
    /\ q_read' = IF q_ch[p] = "Read" THEN Append(q_read, q_ev[p]) ELSE q_read
    /\ q_write' = IF q_ch[p] = "Write" THEN Append(q_write, q_ev[p]) ELSE q_write
    /\ q_pc' = [q_pc EXCEPT ![p] = "total"]
    /\ UNCHANGED <<aioVars, uringVars, mergeVars, taskVars, q_ev, q_ch, q_next,
                   q_prio_count, q_read_count, q_write_count, q_total_count, q_noti,
                   q_spc, q_stage, q_got, q_last_write, q_len, q_popped, q_taken>>

\* submit: total_count.fetch_add(1)
PTotal(p) ==
    /\ q_pc[p] = "total"
    /\ q_total_count' = FetchAdd(q_total_count, 1)
    /\ q_pc' = [q_pc EXCEPT ![p] = "notify"]
    /\ UNCHANGED <<aioVars, uringVars, mergeVars, taskVars, q_ev, q_ch, q_next,
                   q_prio_count, q_read_count, q_write_count, q_prio, q_read,
                   q_write, q_noti, q_spc, q_stage, q_got, q_last_write, q_len,
                   q_popped, q_taken>>

\* submit: noti_sender.try_send(()), then the call returns
PNotify(p) ==
    /\ q_pc[p] = "notify"
    /\ q_noti' = TrySend(q_noti)
    /\ q_pc' = [q_pc EXCEPT ![p] = "idle"]
    /\ UNCHANGED <<aioVars, uringVars, mergeVars, taskVars, q_ev, q_ch, q_next,
                   q_prio_count, q_read_count, q_write_count, q_total_count, q_prio,
                   q_read, q_write, q_spc, q_stage, q_got, q_last_write, q_len,
                   q_popped, q_taken>>

\* worker_submit, top of 'outer: the batch is empty; with total_count == 0 the
\* thread goes to noti_recv.recv(), otherwise straight to the drain
STest ==
    /\ q_spc = "top"
    /\ IF q_total_count = 0
       THEN q_spc' = "recv" /\ UNCHANGED <<q_stage, q_got>>
       ELSE q_spc' = "probe" /\ q_stage' = 0 /\ q_got' = FALSE
    /\ UNCHANGED <<aioVars, uringVars, mergeVars, taskVars, q_pc, q_ev, q_ch, q_next,
                   q_prio_count, q_read_count, q_write_count, q_total_count, q_prio,
                   q_read, q_write, q_noti, q_last_write, q_len, q_popped, q_taken>>

\* worker_submit: noti_recv.recv() returns a token
SRecv ==
    /\ q_spc = "recv"
    /\ q_noti = 1
    /\ q_noti' = 0
    /\ q_spc' = "probe" /\ q_stage' = 0 /\ q_got' = FALSE
    /\ UNCHANGED <<aioVars, uringVars, mergeVars, taskVars, q_pc, q_ev, q_ch, q_next,
                   q_prio_count, q_read_count, q_write_count, q_total_count, q_prio,
                   q_read, q_write, q_last_write, q_len, q_popped, q_taken>>

\* the queue poll_request_from_queues is at: stage 0 the prio queue, stages 1
\* and 2 the data queues in the order of the pass (last_write already flipped)
StageQueue == IF q_stage = 0 THEN "prio" ELSE PassOrder(q_last_write)[q_stage]
StageCount ==
    IF StageQueue = "prio" THEN q_prio_count
    ELSE IF StageQueue = "read" THEN q_read_count ELSE q_write_count
StageItems ==
    IF StageQueue = "prio" THEN q_prio
    ELSE IF StageQueue = "read" THEN q_read ELSE q_write

\* poll_request_from_queues leaves the queue of the current stage: the next
\* stage (last_write flips on entering the data queues); after the last one
\* another round of 'inner_queue if something was got and the quota is not
\* reached, otherwise the function returns
LeaveStage ==
    IF q_stage = 0 THEN
        /\ q_stage' = 1 /\ q_last_write' = ~q_last_write
        /\ q_spc' = "probe" /\ UNCHANGED q_got
    ELSE IF q_stage = 1 THEN
        /\ q_stage' = 2 /\ q_spc' = "probe" /\ UNCHANGED <<q_got, q_last_write>>
    ELSE IF q_got /\ q_len < Depth THEN
        /\ q_stage' = 0 /\ q_got' = FALSE /\ q_spc' = "probe" /\ UNCHANGED q_last_write
    ELSE
        /\ q_spc' = "flush" /\ UNCHANGED <<q_stage, q_got, q_last_write>>

\* poll_request_from_queues: the load of the counter that guards a queue
SProbe ==
    /\ q_spc = "probe"
    /\ IF StageCount > 0
       THEN q_spc' = "pop" /\ UNCHANGED <<q_stage, q_got, q_last_write>>
       ELSE LeaveStage
    /\ UNCHANGED <<aioVars, uringVars, mergeVars, taskVars, q_pc, q_ev, q_ch, q_next,
                   q_prio_count, q_read_count, q_write_count, q_total_count, q_prio,
                   q_read, q_write, q_noti, q_len, q_popped, q_taken>>

\* poll_request_from_queues: with the quota reached the function returns;
\* otherwise queue.pop(), which ends the stage when it finds nothing
SPop ==
    /\ q_spc = "pop"
    /\ IF q_len >= Depth THEN
            /\ q_spc' = "flush"
            /\ UNCHANGED <<q_stage, q_got, q_last_write, q_prio, q_read, q_write, q_popped>>
       ELSE IF StageItems = <<>> THEN
            /\ LeaveStage
            /\ UNCHANGED <<q_prio, q_read, q_write, q_popped>>
       ELSE
            /\ q_popped' = Head(StageItems)
            /\ q_prio' = IF StageQueue = "prio" THEN Tail(q_prio) ELSE q_prio
            /\ q_read' = IF StageQueue = "read" THEN Tail(q_read) ELSE q_read
            /\ q_write' = IF StageQueue = "write" THEN Tail(q_write) ELSE q_write
            /\ q_got' = TRUE
            /\ q_spc' = "dec_count"
            /\ UNCHANGED <<q_stage, q_last_write>>
    /\ UNCHANGED <<aioVars, uringVars, mergeVars, taskVars, q_pc, q_ev, q_ch, q_next,
                   q_prio_count, q_read_count, q_write_count, q_total_count, q_noti,
                   q_len, q_taken>>

\* poll_request_from_queues: the fetch_sub on the queue's counter
SDecCount ==
    /\ q_spc = "dec_count"
    /\ q_prio_count' = IF StageQueue = "prio" THEN FetchSub(q_prio_count, 1) ELSE q_prio_count
    /\ q_read_count' = IF StageQueue = "read" THEN FetchSub(q_read_count, 1) ELSE q_read_count
    /\ q_write_count' = IF StageQueue = "write" THEN FetchSub(q_write_count, 1) ELSE q_write_count
    /\ q_spc' = "dec_total"
    /\ UNCHANGED <<aioVars, uringVars, mergeVars, taskVars, q_pc, q_ev, q_ch, q_next,
                   q_total_count, q_prio, q_read, q_write, q_noti, q_stage, q_got,
                   q_last_write, q_len, q_popped, q_taken>>

\* poll_request_from_queues: total_count.fetch_sub(1), then slots.push(event)
SDecTotal ==
    /\ q_spc = "dec_total"
    /\ q_total_count' = FetchSub(q_total_count, 1)
    /\ q_taken' = Append(q_taken, q_popped)
    /\ q_popped' = 0
    /\ q_len' = q_len + 1
    /\ q_spc' = "pop"
    /\ UNCHANGED <<aioVars, uringVars, mergeVars, taskVars, q_pc, q_ev, q_ch, q_next,
                   q_prio_count, q_read_count, q_write_count, q_prio, q_read,
                   q_write, q_noti, q_stage, q_got, q_last_write>>

\* worker_submit: the batch is submitted and iocbs.clear() empties it
SFlush ==
    /\ q_spc = "flush"
    /\ q_len' = 0
    /\ q_spc' = "top"
    /\ UNCHANGED <<aioVars, uringVars, mergeVars, taskVars, q_pc, q_ev, q_ch, q_next,
                   q_prio_count, q_read_count, q_write_count, q_total_count, q_prio,
                   q_read, q_write, q_noti, q_stage, q_got, q_last_write, q_popped,
                   q_taken>>

ProducerStep(p) == PPush(p) \/ PTotal(p) \/ PNotify(p)
SubmitThreadStep == STest \/ SRecv \/ SProbe \/ SPop \/ SDecCount \/ SDecTotal \/ SFlush

NextWake ==
    \/ \E p \in Producers : \E ch \in {"Prio", "Read", "Write"} : PCount(p, ch)
    \/ \E p \in Producers : ProducerStep(p)
    \/ SubmitThreadStep

\* the engine was constructed with the other driver: no AIO thread exists
InitAioOff ==
    /\ running = TRUE
    /\ dropped = TRUE
    /\ prio_queue = <<>> /\ read_queue = <<>> /\ write_queue = <<>>
    /\ noti = 0
    /\ free_slots_count = Depth
    /\ free_chan = <<>>
    /\ slots = [s \in SlotIds |-> EmptySlot]
    /\ iocbs = <<>>
    /\ submit_pc = "off" /\ hold = NoEvent /\ phase = 0 /\ got = FALSE
    /\ last_write = FALSE /\ done = 0
    /\ kernel = {} /\ cq = <<>>
    /\ poll_pc = "off" /\ infos = <<>>
    /\ ctx_destroyed = FALSE
    /\ faults = 0
    /\ cb_queue = <<>>
    /\ ev_res = [e \in Events |-> I32_MIN]
    /\ cb_count = [e \in Events |-> 0]
    /\ exit_seen = FALSE
    /\ sink_sent = <<>>
    /\ via = [e \in Events |-> "none"]

(***************************************************************************)
(* io_uring driver (uring.rs).                                             *)
(***************************************************************************)
\* IoUring::new(depth.max(2)): the number of submission queue entries
SqEntries == IF Depth < 2 THEN 2 ELSE Depth

InitUring ==
    /\ u_queue = <<>>
    /\ u_closed = FALSE
    /\ u_submit_pc = "recv" /\ u_events = <<>>
    /\ u_sq = <<>>
    /\ u_kernel = {} /\ u_cq = <<>>
    /\ u_complete_pc = "enter"
    /\ u_faults = 0
    /\ u_cb_queue = <<>>
    /\ u_res = [e \in Events |-> I32_MIN]
    /\ u_cb_count = [e \in Events |-> 0]
    /\ u_sent = <<>>
    /\ u_dropped_ev = {}

InitUringOff ==
    /\ u_queue = <<>>
    /\ u_closed = TRUE
    /\ u_submit_pc = "off" /\ u_events = <<>>
    /\ u_sq = <<>>
    /\ u_kernel = {} /\ u_cq = <<>>
    /\ u_complete_pc = "off"
    /\ u_faults = 0
    /\ u_cb_queue = <<>>
    /\ u_res = [e \in Events |-> I32_MIN]
    /\ u_cb_count = [e \in Events |-> 0]
    /\ u_sent = <<>>
    /\ u_dropped_ev = {}

\* events the producer has not sent yet
UUnsent ==
    {e \in Events :
        /\ e \notin SeqToSet(u_queue) /\ e \notin SeqToSet(u_events)
        /\ e \notin SeqToSet(u_sq) /\ e \notin u_kernel
        /\ e \notin {u_cq[i].user_data : i \in 1..Len(u_cq)}
        /\ e \notin SeqToSet(u_sent) /\ e \notin u_dropped_ev}

\* a producer sends the next event into the bounded ingress channel
USend(e) ==
    /\ ~u_closed
    /\ e \in UUnsent
    /\ \A e2 \in UUnsent : e <= e2
    /\ Len(u_queue) < Depth
    /\ u_queue' = Append(u_queue, e)
    /\ UNCHANGED <<notUring, u_closed, u_submit_pc, u_events, u_sq, u_kernel,
                   u_cq, u_complete_pc, u_faults, u_cb_queue, u_res, u_cb_count,
                   u_sent, u_dropped_ev>>

\* the last sender of the ingress channel is dropped
UClose ==
    /\ ~u_closed
    /\ u_closed' = TRUE
    /\ UNCHANGED <<notUring, u_queue, u_submit_pc, u_events, u_sq, u_kernel,
                   u_cq, u_complete_pc, u_faults, u_cb_queue, u_res, u_cb_count,
                   u_sent, u_dropped_ev>>

\* the kernel takes every entry of the submission queue (io_uring_enter)
KernelTakesSq == u_kernel \cup SeqToSet(u_sq)

\* submit: ctx.queue.recv() returns an event; a full SQ is flushed first
USubmitRecv ==
    /\ u_submit_pc = "recv"
    /\ u_queue # <<>>
    /\ u_events' = <<Head(u_queue)>>
    /\ u_queue' = Tail(u_queue)
    /\ IF Len(u_sq) >= SqEntries
       THEN u_kernel' = KernelTakesSq /\ u_sq' = <<>>
       ELSE UNCHANGED <<u_kernel, u_sq>>
    /\ u_submit_pc' = "gather"
    /\ UNCHANGED <<notUring, u_closed, u_cq, u_complete_pc, u_faults,
                   u_cb_queue, u_res, u_cb_count, u_sent, u_dropped_ev>>

\* what the exit branch leaves in the submission queue: the sentinel is pushed;
\* only when the push fails (SQ full) is the queue submitted, and then the
\* sentinel is pushed again, still without a submit of its own
SentinelPush(sq) == IF Len(sq) >= SqEntries THEN <<ExitEvent>> ELSE Append(sq, ExitEvent)

\* a submit thread whose recv() fails as soon as the senders are gone, with
\* events still in the channel
USubmitClosed_Early ==
    /\ u_submit_pc = "recv"
    /\ u_closed
    /\ u_kernel' = IF Len(u_sq) >= SqEntries THEN KernelTakesSq ELSE u_kernel
    /\ u_sq' = SentinelPush(u_sq)
    /\ u_submit_pc' = "exited"
    /\ UNCHANGED <<notUring, u_queue, u_closed, u_events, u_cq, u_complete_pc,
                   u_faults, u_cb_queue, u_res, u_cb_count, u_sent, u_dropped_ev>>

\* submit: ctx.queue.recv() fails (closed and drained): push the sentinel, exit
USubmitClosed ==
    /\ u_submit_pc = "recv"
    /\ u_queue = <<>> /\ u_closed
    /\ u_kernel' = IF Len(u_sq) >= SqEntries THEN KernelTakesSq ELSE u_kernel
    /\ u_sq' = SentinelPush(u_sq)
    /\ u_submit_pc' = "exited"
    /\ UNCHANGED <<notUring, u_queue, u_closed, u_events, u_cq, u_complete_pc,
                   u_faults, u_cb_queue, u_res, u_cb_count, u_sent, u_dropped_ev>>

\* submit: try_recv while events.len() < depth
USubmitTryRecv ==
    /\ u_submit_pc = "gather"
    /\ Len(u_events) < Depth
    /\ u_queue # <<>>
    /\ u_events' = Append(u_events, Head(u_queue))
    /\ u_queue' = Tail(u_queue)
    /\ UNCHANGED <<notUring, u_closed, u_submit_pc, u_sq, u_kernel, u_cq,
                   u_complete_pc, u_faults, u_cb_queue, u_res, u_cb_count,
                   u_sent, u_dropped_ev>>

\* a push loop that walks the batch from its last event to its first
RECURSIVE PushAll_Reversed(_, _)
PushAll_Reversed(sq, evs) ==
    IF evs = <<>> THEN sq
    ELSE IF Len(sq) >= SqEntries THEN PushAll_Reversed(sq, SubSeq(evs, 1, Len(evs) - 1))
    ELSE PushAll_Reversed(Append(sq, evs[Len(evs)]), SubSeq(evs, 1, Len(evs) - 1))

\* entries pushed onto sq from the batch evs; an event that does not fit is freed
RECURSIVE PushAll(_, _)
PushAll(sq, evs) ==
    IF evs = <<>> THEN sq
    ELSE IF Len(sq) >= SqEntries THEN PushAll(sq, Tail(evs))
    ELSE PushAll(Append(sq, Head(evs)), Tail(evs))

\* submit: the gather loop ends, every event is pushed to the SQ
USubmitPush ==
    /\ u_submit_pc = "gather"
    /\ Len(u_events) >= Depth \/ u_queue = <<>>
    /\ u_sq' = PushAll(u_sq, u_events)
    /\ u_dropped_ev' = u_dropped_ev \cup
                         (SeqToSet(u_events) \ SeqToSet(PushAll(u_sq, u_events)))
    /\ u_events' = <<>>
    /\ u_submit_pc' = "submit"
    /\ UNCHANGED <<notUring, u_queue, u_closed, u_kernel, u_cq, u_complete_pc,
                   u_faults, u_cb_queue, u_res, u_cb_count, u_sent>>

\* submit: ring.submit(); an error is only logged
USubmitEnter(ok) ==
    /\ u_submit_pc = "submit"
    /\ IF ok
       THEN /\ u_kernel' = KernelTakesSq /\ u_sq' = <<>>
            /\ UNCHANGED u_faults
       ELSE /\ u_faults < MaxFaults
            /\ u_faults' = u_faults + 1
            /\ UNCHANGED <<u_kernel, u_sq>>
    /\ u_submit_pc' = "recv"
    /\ UNCHANGED <<notUring, u_queue, u_closed, u_events, u_cq, u_complete_pc,
                   u_cb_queue, u_res, u_cb_count, u_sent, u_dropped_ev>>

\* a submit that always asks for the whole buffer
UringSqe_NoBias(res) == [offset |-> 0, buf |-> 0, len |-> EvLen]

\* submit: the request built for an event whose result is res, as offsets from
\* the event's file offset and buffer base, and the length asked for
UringSqe(res) ==
    IF res > 0
    THEN [offset |-> res, buf |-> res, len |-> EvLen - res]
    ELSE [offset |-> 0, buf |-> 0, len |-> EvLen]

\* the kernel completes an entry: the sentinel no-op with 0, a request with
\* at most the bytes it asks for, or -errno
UKernelComplete(x, res) ==
    /\ x \in u_kernel
    /\ IF x = ExitEvent THEN res = 0
       ELSE res \in {-KernelErrno} \cup (0..UringSqe(u_res[x]).len)
    /\ u_kernel' = u_kernel \ {x}
    /\ u_cq' = Append(u_cq, [user_data |-> x, res |-> res])
    /\ UNCHANGED <<notUring, u_queue, u_closed, u_submit_pc, u_events, u_sq,
                   u_complete_pc, u_faults, u_cb_queue, u_res, u_cb_count,
                   u_sent, u_dropped_ev>>

\* complete: ring.submit_and_wait(1) enters the kernel, which takes the SQ
\* entries present at that moment; the thread then waits for a completion
UCompleteEnter ==
    /\ u_complete_pc = "enter"
    /\ u_kernel' = KernelTakesSq
    /\ u_sq' = <<>>
    /\ u_complete_pc' = "wait"
    /\ UNCHANGED <<notUring, u_queue, u_closed, u_submit_pc, u_events, u_cq,
                   u_faults, u_cb_queue, u_res, u_cb_count, u_sent, u_dropped_ev>>

\* complete: submit_and_wait fails; the thread sleeps and calls it again
UCompleteEnterFail ==
    /\ u_complete_pc = "enter"
    /\ u_faults < MaxFaults
    /\ u_faults' = u_faults + 1
    /\ UNCHANGED <<notUring, u_queue, u_closed, u_submit_pc, u_events, u_sq,
                   u_kernel, u_cq, u_complete_pc, u_cb_queue, u_res, u_cb_count,
                   u_sent, u_dropped_ev>>

\* a completer that takes the exit signal for a user event
IsExitCqe_Blind(cqe) == FALSE

\* complete: is a completion entry the exit signal
IsExitCqe(cqe) == cqe.user_data = ExitEvent

\* the user events of a batch of completions, in order
RECURSIVE CqeEvents(_)
CqeEvents(batch) ==
    IF batch = <<>> THEN <<>>
    ELSE IF IsExitCqe(Head(batch)) THEN CqeEvents(Tail(batch))
    ELSE <<Head(batch).user_data>> \o CqeEvents(Tail(batch))

\* the result recorded for a completion: set_copied(res) or set_error(-res)
CqeResult(old, res) == IF res >= 0 THEN SetCopied(old, res) ELSE SetError(-res)

\* the complete thread leaves its loop after a batch
CompleteExits(batch) == \E i \in 1..Len(batch) : IsExitCqe(batch[i])

\* complete: submit_and_wait returned: every available completion is handled
UCompleteReap ==
    /\ u_complete_pc = "wait"
    /\ u_cq # <<>>
    /\ LET batch == u_cq
           evs == CqeEvents(batch)
       IN
        /\ u_res' = [e \in Events |->
                        IF \E i \in 1..Len(batch) : batch[i].user_data = e
                        THEN CqeResult(u_res[e],
                               (CHOOSE c \in SeqToSet(batch) : c.user_data = e).res)
                        ELSE u_res[e]]
        /\ u_cb_queue' = u_cb_queue \o evs
        /\ u_sent' = u_sent \o evs
        /\ u_complete_pc' = IF CompleteExits(batch) THEN "exited" ELSE "enter"
    /\ u_cq' = <<>>
    /\ UNCHANGED <<notUring, u_queue, u_closed, u_submit_pc, u_events, u_sq,
                   u_kernel, u_faults, u_cb_count, u_dropped_ev>>

\* a worker thread of the sink receives a finished event and runs its callback
UWorkerRecv ==
    /\ u_cb_queue # <<>>
    /\ u_cb_count' = [u_cb_count EXCEPT ![Head(u_cb_queue)] = @ + 1]
    /\ u_cb_queue' = Tail(u_cb_queue)
    /\ UNCHANGED <<notUring, u_queue, u_closed, u_submit_pc, u_events, u_sq,
                   u_kernel, u_cq, u_complete_pc, u_faults, u_res, u_sent,
                   u_dropped_ev>>

\* the events that were handed to the engine a second time
UResubmitted ==
    {e \in SeqToSet(u_sent) :
        \/ e \in SeqToSet(u_queue) \/ e \in SeqToSet(u_events)
        \/ e \in SeqToSet(u_sq) \/ e \in u_kernel
        \/ e \in {u_cq[i].user_data : i \in 1..Len(u_cq)}
        \/ e \in u_dropped_ev
        \/ Cardinality({i \in 1..Len(u_sent) : u_sent[i] = e}) >= 2}

\* the callback of a partially transferred event has run and hands the event
\* to the engine again (Short Read/Write Handling)
UResubmit(e) ==
    /\ ~u_closed
    /\ e \in SeqToSet(u_sent)
    /\ e \notin UResubmitted
    /\ e \notin SeqToSet(u_cb_queue)
    /\ u_res[e] > 0 /\ u_res[e] < EvLen
    /\ Cardinality(UResubmitted) < MaxResume
    /\ Len(u_queue) < Depth
    /\ u_queue' = Append(u_queue, e)
    /\ UNCHANGED <<notUring, u_closed, u_submit_pc, u_events, u_sq, u_kernel,
                   u_cq, u_complete_pc, u_faults, u_cb_queue, u_res, u_cb_count,
                   u_sent, u_dropped_ev>>

NextUring ==
    \/ \E e \in Events : USend(e)
    \/ UClose
    \/ USubmitRecv
    \/ USubmitClosed
    \/ USubmitTryRecv
    \/ USubmitPush
    \/ \E ok \in BOOLEAN : USubmitEnter(ok)
    \/ \E x \in Events \cup {ExitEvent} : \E res \in (-KernelErrno)..EvLen :
            UKernelComplete(x, res)
    \/ UCompleteEnter
    \/ UCompleteEnterFail
    \/ UCompleteReap
    \/ UWorkerRecv

(***************************************************************************)
(* Events of the merge submitter: records                                  *)
(*   [id, fd, offset, buf, action, res, cb, sub_tasks]                     *)
(* buf is the sequence of bytes of the event's Buffer, cb tells whether a  *)
(* callback is set, sub_tasks is the list of merged events of a master.    *)
(***************************************************************************)
FileLen == NumBlocks * IoSize
\* the largest buffer the engine can be asked to transfer
MaxTransfer == FileLen + 1
EvIds == 1..(2 * NumBlocks)
Limits == 1..(FileLen + 1)

\* the byte a producer writes at file position p; a fresh buffer and an
\* unwritten file position hold 0
Payload(p) == p + 1
FreshBuf(n) == [k \in 1..n |-> 0]
PayloadBuf(off, n) == [k \in 1..n |-> Payload(off + k - 1)]

\* MergeSubmitter.fd: the descriptor of the file the submitter works on
SubmitterFd == 3
\* the descriptors a producer may create an event with
Fds == {SubmitterFd, SubmitterFd + 1}

\* IOEvent::new followed by set_callback
NewEvent(id, fd, action, off, size) ==
    [id |-> id, fd |-> fd, offset |-> off,
     buf |-> IF action = "Write" THEN PayloadBuf(off, size) ELSE FreshBuf(size),
     action |-> action, res |-> I32_MIN, cb |-> TRUE, sub_tasks |-> <<>>]

\* IOEvent::get_size
GetSize(ev) == Len(ev.buf)

\* a copy that ignores the offset and always fills from the start
CopyFrom_AtStart(dst, off, src) ==
    [k \in 1..Len(dst) |-> IF k <= Len(src) THEN src[k] ELSE dst[k]]

\* Buffer::copy_from(off, src): src is copied to dst starting at index off
CopyFrom(dst, off, src) ==
    [k \in 1..Len(dst) |->
        IF k > off /\ k <= off + Len(src) THEN src[k - off] ELSE dst[k]]

\* safe_copy(dst, src): the number of bytes copied
SafeCopy(dst, src) == Min(Len(dst), Len(src))

(***************************************************************************)
(* MergeBuffer (merge.rs).  B is [events, offset, size]: merged_events,    *)
(* merged_offset and merged_data_size.                                     *)
(***************************************************************************)
EmptyBuffer == [events |-> <<>>, offset |-> -1, size |-> 0]

\* a buffer that admits every event, contiguous or not
MayAddEvent_Any(B, ev, limit) == TRUE

\* a buffer that admits every contiguous event, whatever the staged size
MayAddEvent_NoLimit(B, ev, limit) ==
    IF B.events # <<>> THEN B.offset + B.size = ev.offset ELSE TRUE

MayAddEvent(B, ev, limit) ==
    IF B.events # <<>>
    THEN IF B.size + GetSize(ev) > limit
         THEN FALSE
         ELSE B.offset + B.size = ev.offset
    ELSE TRUE

\* a buffer that stages the incoming event at the front of the list
PushEvent_Front(B, ev) ==
    [events |-> <<ev>> \o B.events,
     offset |-> IF B.events = <<>> THEN ev.offset ELSE B.offset,
     size |-> B.size + GetSize(ev)]

\* push_event: the buffer afterwards (the return value is PushFull)
PushEvent(B, ev) ==
    [events |-> Append(B.events, ev),
     offset |-> IF B.events = <<>> THEN ev.offset ELSE B.offset,
     size |-> B.size + GetSize(ev)]

\* a push_event that reports a full buffer only above the limit
PushFull_Above(B, limit) == B.size > limit

\* push_event: its return value, B being the buffer after the push
PushFull(B, limit) == B.size >= limit

\* the write branch of flush that fills the master buffer back to front
RECURSIVE CopySubs_Reversed(_, _, _)
CopySubs_Reversed(buffer, off, tasks) ==
    IF tasks = <<>> THEN buffer
    ELSE CopySubs_Reversed(CopyFrom(buffer, off, tasks[Len(tasks)].buf),
                           off + Len(tasks[Len(tasks)].buf),
                           SubSeq(tasks, 1, Len(tasks) - 1))

\* the write branch of flush: every staged buffer is copied into the master
\* buffer at the running offset
RECURSIVE CopySubs(_, _, _)
CopySubs(buffer, off, tasks) ==
    IF tasks = <<>> THEN buffer
    ELSE CopySubs(CopyFrom(buffer, off, Head(tasks).buf),
                  off + Len(Head(tasks).buf), Tail(tasks))

\* a master that leaves out the event staged last
Master_DropsLast(B, fd, action) ==
    [id |-> 0, fd |-> fd, offset |-> B.offset,
     buf |-> IF action = "Write"
             THEN CopySubs(FreshBuf(B.size), 0, B.events)
             ELSE FreshBuf(B.size),
     action |-> action, res |-> I32_MIN, cb |-> FALSE,
     sub_tasks |-> SubSeq(B.events, 1, Len(B.events) - 1)]

\* the master event flush builds for two or more staged events
Master(B, fd, action) ==
    [id |-> 0, fd |-> fd, offset |-> B.offset,
     buf |-> IF action = "Write"
             THEN CopySubs(FreshBuf(B.size), 0, B.events)
             ELSE FreshBuf(B.size),
     action |-> action, res |-> I32_MIN, cb |-> FALSE, sub_tasks |-> B.events]

\* a flush that returns a single staged event with the fd it was created with
Flush_KeepsFd(B, fd, action, alloc) ==
    IF Len(B.events) = 0 THEN
        [buffer |-> B, out |-> <<>>, failed |-> <<>>]
    ELSE IF Len(B.events) = 1 THEN
        [buffer |-> EmptyBuffer, out |-> <<B.events[1]>>, failed |-> <<>>]
    ELSE IF alloc THEN
        [buffer |-> EmptyBuffer, out |-> <<Master(B, fd, action)>>, failed |-> <<>>]
    ELSE
        [buffer |-> EmptyBuffer, out |-> <<>>,
         failed |-> [k \in 1..Len(B.events) |->
                        [B.events[k] EXCEPT !.res = SetError(ENOMEM)]]]

\* a flush that calls the staged events back without recording the failed
\* allocation on them
Flush_Unrecorded(B, fd, action, alloc) ==
    IF Len(B.events) = 0 THEN
        [buffer |-> B, out |-> <<>>, failed |-> <<>>]
    ELSE IF Len(B.events) = 1 THEN
        [buffer |-> EmptyBuffer, out |-> <<[B.events[1] EXCEPT !.fd = fd]>>,
         failed |-> <<>>]
    ELSE IF alloc THEN
        [buffer |-> EmptyBuffer, out |-> <<Master(B, fd, action)>>, failed |-> <<>>]
    ELSE
        [buffer |-> EmptyBuffer, out |-> <<>>, failed |-> B.events]

\* MergeBuffer::flush: [buffer, out, failed]; out is the returned event (a
\* sequence of length 0 or 1), failed the events called back with ENOMEM when
\* Buffer::aligned fails (alloc = FALSE)
Flush(B, fd, action, alloc) ==
    IF Len(B.events) = 0 THEN
        [buffer |-> B, out |-> <<>>, failed |-> <<>>]
    ELSE IF Len(B.events) = 1 THEN
        [buffer |-> EmptyBuffer, out |-> <<[B.events[1] EXCEPT !.fd = fd]>>,
         failed |-> <<>>]
    ELSE IF alloc THEN
        [buffer |-> EmptyBuffer, out |-> <<Master(B, fd, action)>>, failed |-> <<>>]
    ELSE
        [buffer |-> EmptyBuffer, out |-> <<>>,
         failed |-> [k \in 1..Len(B.events) |->
                        [B.events[k] EXCEPT !.res = SetError(ENOMEM)]]]

(***************************************************************************)
(* MergeSubmitter (merge.rs).                                              *)
(***************************************************************************)
\* a _flush that calls back the events of a flush it could not send
FlushSend_CallsBack(B, fd, action, alloc, closed) ==
    LET f == Flush(B, fd, action, alloc) IN
    [buffer |-> f.buffer,
     sent |-> IF closed THEN <<>> ELSE f.out,
     called |-> IF closed /\ f.out # <<>>
                THEN IF f.out[1].sub_tasks # <<>> THEN f.out[1].sub_tasks ELSE f.out
                ELSE f.failed,
     err |-> (closed /\ f.out # <<>>)]

\* MergeSubmitter::_flush: the flushed event is sent unless the channel is
\* closed; [buffer, sent, called, err]
FlushSend(B, fd, action, alloc, closed) ==
    LET f == Flush(B, fd, action, alloc) IN
    [buffer |-> f.buffer,
     sent |-> IF closed THEN <<>> ELSE f.out,
     called |-> f.failed,
     err |-> (closed /\ f.out # <<>>)]

NoFlush(B) == [buffer |-> B, sent |-> <<>>, called |-> <<>>, err |-> FALSE]

\* an add_event that stages the incoming event without the admission test
AddEvent_Unchecked(B, ev, limit, fd, action, alloc, closed) ==
    LET f1 == IF GetSize(ev) >= limit
              THEN FlushSend(B, fd, action, alloc, closed)
              ELSE NoFlush(B)
    IN  IF f1.err
        THEN [buffer |-> f1.buffer, sent |-> <<>>,
              called |-> f1.called \o <<ev>>, ret |-> "Err"]
        ELSE LET B2 == PushEvent(f1.buffer, ev)
                 f2 == IF PushFull(B2, limit)
                       THEN FlushSend(B2, fd, action, alloc, closed)
                       ELSE NoFlush(B2)
             IN  [buffer |-> f2.buffer, sent |-> f1.sent \o f2.sent,
                  called |-> f1.called \o f2.called,
                  ret |-> IF f2.err THEN "Err" ELSE "Ok"]

\* MergeSubmitter::add_event: [buffer, sent, called, ret]; called lists the
\* events whose callback() was invoked inside the call
AddEvent(B, ev, limit, fd, action, alloc, closed) ==
    LET f1 == IF GetSize(ev) >= limit \/ ~MayAddEvent(B, ev, limit)
              THEN FlushSend(B, fd, action, alloc, closed)
              ELSE NoFlush(B)
    IN  IF f1.err
        THEN [buffer |-> f1.buffer, sent |-> <<>>,
              called |-> f1.called \o <<ev>>, ret |-> "Err"]
        ELSE LET B2 == PushEvent(f1.buffer, ev)
                 f2 == IF PushFull(B2, limit)
                       THEN FlushSend(B2, fd, action, alloc, closed)
                       ELSE NoFlush(B2)
             IN  [buffer |-> f2.buffer, sent |-> f1.sent \o f2.sent,
                  called |-> f1.called \o f2.called,
                  ret |-> IF f2.err THEN "Err" ELSE "Ok"]

(***************************************************************************)
(* IOEvent::callback and IOEvent::callback_merged (tasks.rs).              *)
(***************************************************************************)
\* the read branch: the master buffer b is handed out front to back
RECURSIVE FanRead(_, _)
FanRead(tasks, b) ==
    IF tasks = <<>> THEN <<>>
    ELSE LET c == Head(tasks)
             copied == IF Len(b) = 0 THEN 0 ELSE SafeCopy(c.buf, b)
         IN  <<[c EXCEPT !.buf = CopyFrom(c.buf, 0, SubSeq(b, 1, copied)),
                         !.res = SetCopied(c.res, copied)]>>
             \o FanRead(Tail(tasks), SubSeq(b, copied + 1, Len(b)))

\* the write branch: l is the size of the master
FanWrite(tasks, l) ==
    [k \in 1..Len(tasks) |->
        [tasks[k] EXCEPT !.res = SetCopied(tasks[k].res, Min(GetSize(tasks[k]), l))]]

\* an error branch that stores the errno as given, without negating it
FanError_Positive(tasks, errno) ==
    [k \in 1..Len(tasks) |-> [tasks[k] EXCEPT !.res = errno]]

\* the error branch
FanError(tasks, errno) ==
    [k \in 1..Len(tasks) |-> [tasks[k] EXCEPT !.res = SetError(errno)]]

\* callback_merged: the events on which callback() is invoked, in order
CallbackMerged(ev) ==
    IF ev.sub_tasks # <<>> THEN
        IF ev.res >= 0 THEN
            IF ev.action = "Read"
            THEN FanRead(ev.sub_tasks, ev.buf)
            ELSE FanWrite(ev.sub_tasks, GetSize(ev))
        ELSE FanError(ev.sub_tasks, -ev.res)
    ELSE <<ev>>

\* callback(): the callback is taken out of the event and called; an event
\* without one is dropped.  log after callback() ran on every event of calls.
Callbacks(log, calls) ==
    [i \in EvIds |->
        LET ks == {k \in 1..Len(calls) : calls[k].id = i /\ calls[k].cb} IN
        IF ks = {} THEN log[i]
        ELSE LET last == calls[CHOOSE k \in ks : \A j \in ks : j <= k] IN
             [count |-> log[i].count + Cardinality(ks),
              res |-> last.res, buf |-> last.buf]]

(***************************************************************************)
(* The merge submitter in use: a producer, the engine behind the channel   *)
(* and the worker sink.                                                    *)
(***************************************************************************)
Workers == 1..MaxWorkers
NoLog == [count |-> 0, res |-> I32_MIN, buf |-> <<>>]
Buffer == [events |-> merged_events, offset |-> merged_offset, size |-> merged_data_size]

\* MergeSubmitter::new with a limit of limits, Inline (0) or IOWorkers::new(n)
\* with n of pools, an empty file
InitMerge(limits, pools) ==
    /\ merge_size_limit \in limits
    /\ merged_events = <<>> /\ merged_offset = -1 /\ merged_data_size = 0
    /\ m_chan = <<>>
    /\ m_closed = FALSE
    /\ m_ret = "Ok"
    /\ m_called = <<>>
    /\ m_added = {}
    /\ m_faults = 0
    /\ m_file = [p \in 0..(FileLen - 1) |-> 0]
    /\ all_full = TRUE
    /\ \E n \in pools :
        /\ w_workers = n
        /\ w_mode = IF n = 0 THEN "Inline" ELSE "IOWorkers"
    /\ w_chan = <<>>
    /\ w_hold = [w \in Workers |-> <<>>]
    /\ w_done = {}
    /\ cb_log = [i \in EvIds |-> NoLog]
    /\ fanned = <<>>

\* a producer that adds events of any offset and size to one submitter
InitMergeAny ==
    /\ producer = "any"
    /\ m_action \in {"Read", "Write"}
    /\ InitMerge(1..(2 * MaxSize), {0})

\* the producer of _test_merge_submit: blocks are written, then read back
InitMergeBlocks ==
    /\ producer = "blocks"
    /\ m_action = "Write"
    /\ InitMerge(Limits, 0..MaxWorkers)

\* no merge submitter is in use
InitMergeOff ==
    /\ producer = "off"
    /\ m_action = "Read"
    /\ merge_size_limit = 1
    /\ merged_events = <<>> /\ merged_offset = -1 /\ merged_data_size = 0
    /\ m_chan = <<>>
    /\ m_closed = FALSE
    /\ m_ret = "Ok"
    /\ m_called = <<>>
    /\ m_added = {}
    /\ m_faults = 0
    /\ m_file = [p \in 0..(FileLen - 1) |-> 0]
    /\ all_full = TRUE
    /\ w_workers = 0 /\ w_mode = "Inline"
    /\ w_chan = <<>>
    /\ w_hold = [w \in Workers |-> <<>>]
    /\ w_done = {}
    /\ cb_log = [i \in EvIds |-> NoLog]
    /\ fanned = <<>>

\* the producer calls add_event(ev); alloc tells whether Buffer::aligned
\* succeeds inside the call
DoAdd(ev, alloc) ==
    LET r == AddEvent(Buffer, ev, merge_size_limit, SubmitterFd, m_action, alloc,
                      m_closed)
        r_ok == AddEvent(Buffer, ev, merge_size_limit, SubmitterFd, m_action, TRUE,
                         m_closed)
    IN
    /\ ~alloc => (m_faults < MaxFaults /\ r # r_ok)
    /\ m_faults' = IF alloc THEN m_faults ELSE m_faults + 1
    /\ merged_events' = r.buffer.events
    /\ merged_offset' = r.buffer.offset
    /\ merged_data_size' = r.buffer.size
    /\ m_chan' = m_chan \o r.sent
    /\ cb_log' = Callbacks(cb_log, r.called)
    /\ m_ret' = r.ret
    /\ m_called' = [k \in 1..Len(r.called) |-> r.called[k].id]
    /\ m_added' = m_added \cup {ev.id}
    /\ UNCHANGED <<notMerge, producer, merge_size_limit, m_action, m_closed, m_file,
                   all_full, w_mode, w_workers, w_chan, w_hold, w_done, fanned>>

\* add_event with an event of any descriptor, offset and size
ProducerAddAny(fd, off, size, alloc) ==
    /\ producer = "any"
    /\ Cardinality(m_added) < MaxAdds
    /\ off + size <= FileLen
    /\ DoAdd(NewEvent(Cardinality(m_added) + 1, fd, m_action, off, size), alloc)

\* the id of the event that writes (reads) block b
BlockId(action, b) == IF action = "Write" THEN b + 1 ELSE NumBlocks + b + 1
Blocks == 0..(NumBlocks - 1)

\* add_event with the event of block b, blocks in any arrival order
ProducerAddBlock(b, alloc) ==
    /\ producer = "blocks"
    /\ BlockId(m_action, b) \notin m_added
    /\ DoAdd(NewEvent(BlockId(m_action, b), SubmitterFd, m_action, b * IoSize, IoSize),
             alloc)

\* add_event with the next event of a sequence of equally sized events: block
\* b, whether or not it continues the event before it
ProducerAddRun(b) ==
    /\ producer = "runs"
    /\ Cardinality(m_added) < MaxRun
    /\ DoAdd(NewEvent(Cardinality(m_added) + 1, SubmitterFd, m_action, b * IoSize,
                      IoSize), TRUE)

\* MergeSubmitter::flush; alloc tells whether Buffer::aligned succeeds
DoFlush(alloc) ==
    LET r == FlushSend(Buffer, SubmitterFd, m_action, alloc, m_closed)
        r_ok == FlushSend(Buffer, SubmitterFd, m_action, TRUE, m_closed)
    IN
    /\ ~alloc => (m_faults < MaxFaults /\ r # r_ok)
    /\ m_faults' = IF alloc THEN m_faults ELSE m_faults + 1
    /\ merged_events' = r.buffer.events
    /\ merged_offset' = r.buffer.offset
    /\ merged_data_size' = r.buffer.size
    /\ m_chan' = m_chan \o r.sent
    /\ cb_log' = Callbacks(cb_log, r.called)
    /\ m_ret' = IF r.err THEN "Err" ELSE "Ok"
    /\ m_called' = [k \in 1..Len(r.called) |-> r.called[k].id]
    /\ UNCHANGED <<notMerge, merge_size_limit, m_action, m_closed, m_added,
                   m_file, all_full, w_mode, w_workers, w_chan, w_hold, w_done,
                   fanned>>

\* the producer calls flush() at any time
ProducerFlush(alloc) ==
    /\ producer \in {"any", "blocks"}
    /\ DoFlush(alloc)
    /\ UNCHANGED producer

\* the producer of a sequence calls flush() once, after its last add_event
ProducerFinalFlush ==
    /\ producer = "runs"
    /\ DoFlush(TRUE)
    /\ producer' = "done"

\* _test_merge_submit after wg.wait(): every write has called back; the
\* blocks are now read through a new submitter with the same limit
StartRead ==
    /\ producer = "blocks" /\ m_action = "Write"
    /\ \A b \in Blocks :
        /\ BlockId("Write", b) \in m_added
        /\ cb_log[BlockId("Write", b)].count >= 1
    /\ m_action' = "Read"
    /\ merged_events' = <<>> /\ merged_offset' = -1 /\ merged_data_size' = 0
    /\ UNCHANGED <<notMerge, producer, merge_size_limit, m_chan, m_closed, m_ret, m_called,
                   m_added, m_faults, m_file, all_full, w_mode, w_workers, w_chan,
                   w_hold, w_done, cb_log, fanned>>

\* the engine behind the channel has stopped with nothing left to do: the
\* receiving side of the submitter's channel goes away
CloseChan ==
    /\ producer # "off"
    /\ ~m_closed
    /\ m_chan = <<>> /\ w_chan = <<>> /\ \A w \in Workers : w_hold[w] = <<>>
    /\ m_faults < MaxFaults
    /\ m_faults' = m_faults + 1
    /\ m_closed' = TRUE
    /\ UNCHANGED <<notMerge, producer, merge_size_limit, m_action, merged_events,
                   merged_offset, merged_data_size, m_chan, m_ret, m_called, m_added, m_file,
                   all_full, w_mode, w_workers, w_chan, w_hold, w_done, cb_log,
                   fanned>>

\* the kernel transfers r bytes of the request of ev (r < 0: -errno) and the
\* completer records the result: set_copied(r) or set_error(-r)
Transfer(ev, r) ==
    [ev EXCEPT
        !.buf = IF r > 0 /\ ev.action = "Read"
                THEN CopyFrom(ev.buf, 0, [k \in 1..r |-> m_file[ev.offset + k - 1]])
                ELSE ev.buf,
        !.res = IF r >= 0 THEN SetCopied(ev.res, r) ELSE SetError(-r)]

FileAfter(ev, r) ==
    IF r > 0 /\ ev.action = "Write"
    THEN [p \in 0..(FileLen - 1) |->
            IF p >= ev.offset /\ p < ev.offset + r
            THEN ev.buf[p - ev.offset + 1] ELSE m_file[p]]
    ELSE m_file

\* the user events an event stands for: itself, or the sub tasks of a master
UserEvents(ev) ==
    IF ev.sub_tasks # <<>>
    THEN {ev.sub_tasks[k].id : k \in 1..Len(ev.sub_tasks)}
    ELSE {ev.id}

\* what one callback_merged call leaves behind
Fanned(ev) == IF ev.sub_tasks # <<>>
              THEN <<[master |-> ev, calls |-> CallbackMerged(ev)]>>
              ELSE fanned

\* the engine takes the next event from the channel, the kernel completes it
\* and the completer passes it to Worker::done
DriverComplete(r) ==
    /\ m_chan # <<>> /\ ~m_closed
    /\ LET ev == Head(m_chan)
           ev2 == Transfer(ev, r)
       IN
        /\ r \in {-KernelErrno} \cup (0..GetSize(ev))
        /\ m_file' = FileAfter(ev, r)
        /\ all_full' = (all_full /\ r = GetSize(ev))
        /\ IF w_mode = "Inline"
           THEN /\ cb_log' = Callbacks(cb_log, CallbackMerged(ev2))
                /\ fanned' = Fanned(ev2)
                /\ UNCHANGED w_chan
           ELSE /\ w_chan' = Append(w_chan, ev2)
                /\ UNCHANGED <<cb_log, fanned>>
    /\ m_chan' = Tail(m_chan)
    /\ w_done' = w_done \cup UserEvents(Head(m_chan))
    /\ UNCHANGED <<notMerge, producer, merge_size_limit, m_action, merged_events,
                   merged_offset, merged_data_size, m_closed, m_ret, m_called, m_added,
                   m_faults, w_mode, w_workers, w_hold>>

\* a channel that hands out its first item without removing it
Received_Peek(q) == q

\* the channel after a receive
Received(q) == Tail(q)

\* worker thread w of the pool: _rx.recv() returns an event
PoolRecv(w) ==
    /\ w <= w_workers
    /\ w_hold[w] = <<>>
    /\ w_chan # <<>>
    /\ w_hold' = [w_hold EXCEPT ![w] = <<Head(w_chan)>>]
    /\ w_chan' = Received(w_chan)
    /\ UNCHANGED <<notMerge, producer, merge_size_limit, m_action, merged_events,
                   merged_offset, merged_data_size, m_chan, m_closed, m_ret, m_called,
                   m_added, m_faults, m_file, all_full, w_mode, w_workers, w_done,
                   cb_log, fanned>>

\* worker thread w of the pool: event.callback_merged()
PoolCallback(w) ==
    /\ w_hold[w] # <<>>
    /\ cb_log' = Callbacks(cb_log, CallbackMerged(w_hold[w][1]))
    /\ fanned' = Fanned(w_hold[w][1])
    /\ w_hold' = [w_hold EXCEPT ![w] = <<>>]
    /\ UNCHANGED <<notMerge, producer, merge_size_limit, m_action, merged_events,
                   merged_offset, merged_data_size, m_chan, m_closed, m_ret, m_called,
                   m_added, m_faults, m_file, all_full, w_mode, w_workers, w_chan,
                   w_done>>

\* the sink's worker threads
NextPool ==
    \/ \E w \in Workers : PoolRecv(w)
    \/ \E w \in Workers : PoolCallback(w)

\* any producer and an Inline sink, a kernel that may transfer less than
\* asked or fail, a buffer allocation that may fail, a channel that may close
NextMergeAny ==
    \/ \E fd \in Fds : \E off \in 0..MaxOff : \E size \in 1..MaxSize :
        \E alloc \in BOOLEAN : ProducerAddAny(fd, off, size, alloc)
    \/ \E alloc \in BOOLEAN : ProducerFlush(alloc)
    \/ \E r \in (-KernelErrno)..MaxTransfer : DriverComplete(r)
    \/ CloseChan

\* the round trip with any sink: every allocation succeeds, the channel stays
\* open, the kernel transfers a request in full or fails it
NextMergeBlocks ==
    \/ \E b \in Blocks : ProducerAddBlock(b, TRUE)
    \/ ProducerFlush(TRUE)
    \/ StartRead
    \/ \E r \in {-KernelErrno} \cup (1..MaxTransfer) :
            /\ r > 0 => (m_chan # <<>> /\ r = GetSize(Head(m_chan)))
            /\ DriverComplete(r)
    \/ NextPool

\* a sequence of equally sized events through the submitter; nothing is
\* taken from the channel
NextMergeRuns ==
    \/ \E b \in 0..(RunBlocks - 1) : ProducerAddRun(b)
    \/ ProducerFinalFlush

(***************************************************************************)
(* Specifications.                                                         *)
(***************************************************************************)
\* IOContext::new with Driver::Aio
InitDriverAio == InitAio /\ InitUringOff /\ InitMergeOff /\ InitTask /\ InitWake
SpecAio == InitDriverAio /\ [][NextAio]_vars

\* IOContext::new with Driver::Uring
InitDriverUring == InitAioOff /\ InitUring /\ InitMergeOff /\ InitTask /\ InitWake
SpecUring == InitDriverUring /\ [][NextUring]_vars

\* the io_uring engine with callbacks that hand partial transfers back
NextUringResume == NextUring \/ \E e \in Events : UResubmit(e)
SpecResume == InitDriverUring /\ [][NextUringResume]_vars

\* IOContext::new with either driver
Init == InitDriverAio \/ InitDriverUring
Next == NextAio \/ NextUring
Spec == Init /\ [][Next]_vars

\* a merge submitter fed with events of any offset and size
InitAny == InitAioOff /\ InitUringOff /\ InitMergeAny /\ InitTask /\ InitWake
SpecMerge == InitAny /\ [][NextMergeAny]_vars

\* the write-then-read round trip of _test_merge_submit
InitBlocks == InitAioOff /\ InitUringOff /\ InitMergeBlocks /\ InitTask /\ InitWake
SpecRoundTrip == InitBlocks /\ [][NextMergeBlocks]_vars

\* a merge submitter fed with a sequence of equally sized events, at any
\* block offsets, and flushed at the end
InitRuns ==
    /\ InitAioOff /\ InitUringOff /\ InitTask /\ InitWake
    /\ producer = "runs"
    /\ m_action = "Write"
    /\ InitMerge(Limits, {0})
SpecGrouping == InitRuns /\ [][NextMergeRuns]_vars

\* one request record and the calls of the result machinery on it
InitEvent == InitAioOff /\ InitUringOff /\ InitMergeOff /\ InitTask /\ InitWake
SpecEvent == InitEvent /\ [][NextTask]_vars

\* producers and the submit thread at the ingress of the queue-based context;
\* a producer inside submit() and the submit thread are threads the scheduler
\* keeps running: a step of theirs that stays possible is taken
InitWakeup == InitAioOff /\ InitUringOff /\ InitMergeOff /\ InitTask /\ InitWake
SpecWakeup ==
    /\ InitWakeup /\ [][NextWake]_vars
    /\ WF_vars(SubmitThreadStep)
    /\ \A p \in Producers : WF_vars(ProducerStep(p))

(***************************************************************************)
(* Properties of the AIO driver.                                           *)
(***************************************************************************)
\* slots whose request the kernel holds or whose completion is not handled yet
InFlight ==
    kernel \cup {cq[i].data : i \in 1..Len(cq)} \cup {infos[i].data : i \in 1..Len(infos)}

\* events the producer handed to IOContext::submit
Handed == Events \ Unsent

\* the submit thread waits for a free slot that no thread will ever return:
\* nothing is in flight, nothing is left to process, no callback is pending
SubmitStarved ==
    /\ submit_pc = "push" /\ free_chan = <<>>
    /\ InFlight = {} /\ iocbs = <<>>
    /\ cb_queue = <<>>

\* C1: in steady state (context alive, no kernel fault) every event handed to
\* the engine has had its callback exactly once whenever the engine has come
\* to rest, for any number of events, more than depth included.  Stated on the
\* resting states: when the submit thread waits for a slot with nothing in
\* flight and nothing pending, every handed event has had its one callback.
C1_EveryEventCalledBack ==
    (SubmitStarved /\ ~dropped /\ faults = 0) =>
        \A e \in Handed : cb_count[e] = 1

\* C3: when the poll thread has seen the exit signal and has exited, every
\* request that was in flight has been handed to the worker sink: no slot
\* still holds a user event (without kernel faults every filled slot was
\* accepted by io_submit before the exit signal was submitted).
C3_InFlightDeliveredBeforeExit ==
    (poll_pc = "exited" /\ exit_seen /\ faults = 0) =>
        \A s \in SlotIds : slots[s].event \in {NoEvent, ExitEvent}

\* C4: once the exit signal has been observed and no request is in flight,
\* the poll thread is out of its loop: it is never again at the io_getevents
\* call.
C4_NoReturnToGetevents ==
    (exit_seen /\ submit_pc = "done" /\ InFlight = {}) => poll_pc # "getevents"

(***************************************************************************)
(* Properties of the io_uring driver.                                      *)
(***************************************************************************)
\* C2: the complete thread exits only when no submitted event is left
\* uncompleted: once it has exited the kernel holds no user request.
C2_CompleteExitsAfterAllCompleted ==
    (u_complete_pc = "exited" /\ u_faults = 0) => u_kernel \cap Events = {}

\* C5: the exit signal reaches the kernel before the submit thread exits, so
\* the complete thread is never left waiting in submit_and_wait(1) with
\* nothing in flight while the exit signal sits unsubmitted in the SQ.
C5_SentinelSubmittedBeforeExit ==
    (u_submit_pc = "exited" /\ u_faults = 0) =>
        ~(/\ u_complete_pc = "wait"
          /\ u_kernel = {} /\ u_cq = <<>>
          /\ ExitEvent \in SeqToSet(u_sq))

(***************************************************************************)
(* Properties of both drivers.                                             *)
(***************************************************************************)
\* how many times x occurs in the sequence q
RECURSIVE Occurrences(_, _)
Occurrences(q, x) ==
    IF q = <<>> THEN 0
    ELSE (IF Head(q) = x THEN 1 ELSE 0) + Occurrences(Tail(q), x)

\* C6: the exit signal is never handed to the worker sink and never causes a
\* callback: in both drivers every callback fired, or still queued at the
\* sink, belongs to a user event the driver completed, one for one.
C6_SentinelNeverReachesSink ==
    /\ ExitEvent \notin SeqToSet(sink_sent) \cup SeqToSet(cb_queue)
    /\ ExitEvent \notin SeqToSet(u_sent) \cup SeqToSet(u_cb_queue)
    /\ \A e \in Events :
        /\ cb_count[e] + Occurrences(cb_queue, e) = Occurrences(sink_sent, e)
        /\ u_cb_count[e] + Occurrences(u_cb_queue, e) = Occurrences(u_sent, e)

\* C6 witness: the complete thread has handled the exit signal of the ring in
\* the same batch as a user event whose callback has since fired
C6_Witness ==
    /\ u_complete_pc = "exited"
    /\ \E e \in Events : u_cb_count[e] = 1

(***************************************************************************)
(* Properties of the worker sink.                                          *)
(***************************************************************************)
\* user events a worker thread still has to call back: queued at the sink or
\* received and not yet processed
PendingAtSink ==
    UNION {UserEvents(w_chan[k]) : k \in 1..Len(w_chan)}
    \cup UNION {UserEvents(w_hold[w][1]) : w \in {x \in Workers : w_hold[x] # <<>>}}

\* C7: every event passed to Worker::done, a plain event or a child of a
\* master, has its callback invoked exactly once, with the Inline sink and
\* with a pool of one or more worker threads: no callback runs twice, and an
\* event that was passed to the sink and is no longer waiting there has had
\* its callback.
C7_CallbackExactlyOnce ==
    \A i \in EvIds :
        /\ cb_log[i].count <= 1
        /\ (i \in w_done /\ i \notin PendingAtSink) => cb_log[i].count = 1

\* C7 witness: a pool of two workers has processed every event of the round
\* trip, children of a master among them
C7_Witness ==
    /\ w_workers = 2
    /\ fanned # <<>>
    /\ w_done = EvIds /\ PendingAtSink = {}
    /\ \A i \in EvIds : cb_log[i].count = 1

(***************************************************************************)
(* Properties of merging.                                                  *)
(***************************************************************************)
\* the sizes of the events of a list
Sizes(tasks) == [k \in 1..Len(tasks) |-> GetSize(tasks[k])]

\* the structure of a master m
MasterStructure(m) ==
    /\ GetSize(m) = SeqSum(Sizes(m.sub_tasks))
    /\ m.offset = m.sub_tasks[1].offset
    /\ \A i \in 1..Len(m.sub_tasks) :
        m.sub_tasks[i].offset = m.offset + SeqSum(SubSeq(Sizes(m.sub_tasks), 1, i - 1))

\* C8: when every request was transferred in full, each read event of the
\* round trip is delivered exactly the bytes that were written at its offset,
\* whatever the arrival order of the blocks and the merge_size_limit.
C8_RoundTrip ==
    all_full =>
        \A b \in Blocks :
            cb_log[BlockId("Read", b)].count >= 1 =>
                /\ cb_log[BlockId("Read", b)].buf = PayloadBuf(b * IoSize, IoSize)
                /\ cb_log[BlockId("Read", b)].res = IoSize

\* C8 witness: every block has been read back in full, the last of them
\* through a Read master of several blocks
C8_Witness ==
    /\ all_full
    /\ \A b \in Blocks : cb_log[BlockId("Read", b)].count = 1
    /\ fanned # <<>>
    /\ fanned[1].master.action = "Read"
    /\ Len(fanned[1].master.sub_tasks) >= 2

\* C9: every master the submitter emits has size = sum of its children's
\* sizes, offset = its first child's offset, and child i at the master's
\* offset + the sizes of the children before i.
C9_MasterStructure ==
    \A k \in 1..Len(m_chan) :
        m_chan[k].sub_tasks # <<>> => MasterStructure(m_chan[k])

\* C9 witness: a master of three children of different sizes has been emitted
C9_Witness ==
    \E k \in 1..Len(m_chan) :
        /\ Len(m_chan[k].sub_tasks) >= 3
        /\ \E i, j \in 1..Len(m_chan[k].sub_tasks) :
            GetSize(m_chan[k].sub_tasks[i]) # GetSize(m_chan[k].sub_tasks[j])

\* C10: for a master completed with a result r >= 0, the results recorded on
\* its children by callback_merged sum to r.
C10_FanOutSum ==
    (fanned # <<>> /\ fanned[1].master.res >= 0) =>
        SeqSum([k \in 1..Len(fanned[1].calls) |-> fanned[1].calls[k].res])
            = fanned[1].master.res

\* the share of child k of a master with the child sizes sz when the first r
\* bytes of the master are attributed front to back
Share(sz, r, k) ==
    LET p == SeqSum(SubSeq(sz, 1, k - 1))
    IN  Min(sz[k], IF r > p THEN r - p ELSE 0)

\* C11: for a Write master with result L, child i records
\* min(child_i.size, remaining), where remaining starts at L and is reduced by
\* what each earlier child recorded; once remaining is 0 later children record 0.
C11_WriteFanOutAttribution ==
    (fanned # <<>> /\ fanned[1].master.action = "Write" /\ fanned[1].master.res >= 0) =>
        \A k \in 1..Len(fanned[1].calls) :
            fanned[1].calls[k].res =
                Share(Sizes(fanned[1].master.sub_tasks), fanned[1].master.res, k)

\* C12: for a Read master with result r only the first r bytes of the master
\* buffer are distributed: child i records n_i = min(child_i.size,
\* max(0, r - p_i)) with p_i the sum of the earlier children's sizes, and its
\* first n_i bytes are the master's bytes [p_i, p_i + n_i).
C12_ReadFanOutAttribution ==
    (fanned # <<>> /\ fanned[1].master.action = "Read" /\ fanned[1].master.res >= 0) =>
        \A k \in 1..Len(fanned[1].calls) :
            LET m == fanned[1].master
                sz == Sizes(m.sub_tasks)
                p == SeqSum(SubSeq(sz, 1, k - 1))
                n == Share(sz, m.res, k)
            IN  /\ fanned[1].calls[k].res = n
                /\ SubSeq(fanned[1].calls[k].buf, 1, n) = SubSeq(m.buf, p + 1, p + n)

\* C13: for a master completed with a negative result e, callback_merged
\* records exactly e on every child and invokes every child's callback; no
\* child is reported as successful.
C13_ErrorFanOut ==
    (fanned # <<>> /\ fanned[1].master.res < 0) =>
        /\ Len(fanned[1].calls) = Len(fanned[1].master.sub_tasks)
        /\ \A k \in 1..Len(fanned[1].calls) :
            /\ fanned[1].calls[k].res = fanned[1].master.res
            /\ cb_log[fanned[1].calls[k].id].count = 1
            /\ cb_log[fanned[1].calls[k].id].res = fanned[1].master.res

\* C13 witness: a master of several children has failed and fanned out
C13_Witness ==
    /\ fanned # <<>>
    /\ fanned[1].master.res = -KernelErrno
    /\ Len(fanned[1].calls) >= 2
    /\ \A k \in 1..Len(fanned[1].calls) : cb_log[fanned[1].calls[k].id].count = 1

\* C14: in callback_merged the children's callbacks fire in the order in which
\* add_event staged the children (events are numbered in the order of the
\* add_event calls), one child after the other, and no child is skipped.
C14_FanOutOrder ==
    fanned # <<>> =>
        /\ Len(fanned[1].calls) = Len(fanned[1].master.sub_tasks)
        /\ \A k \in 1..Len(fanned[1].calls) :
            fanned[1].calls[k].id = fanned[1].master.sub_tasks[k].id
        /\ \A j, k \in 1..Len(fanned[1].calls) :
            j < k => fanned[1].calls[j].id < fanned[1].calls[k].id

\* C14 witness: a master of three children has fanned out
C14_Witness ==
    /\ fanned # <<>>
    /\ Len(fanned[1].calls) >= 3
    /\ \A k \in 1..Len(fanned[1].calls) : cb_log[fanned[1].calls[k].id].count = 1

\* C15: in every reachable state the number of requests submitted to the
\* kernel and not yet reaped is at most depth, and running_count() is between
\* 0 and depth.
C15_DepthBudget ==
    /\ Cardinality(kernel) + Len(cq) <= Depth
    /\ running_count \in 0..Depth

\* C15 witness: depth requests are in the kernel at once and running_count()
\* reports depth
C15_Witness ==
    /\ Cardinality(kernel) = Depth
    /\ running_count = Depth

C17_ZeroByteReadIsSuccess ==
    [][/\ (/\ infos # <<>> /\ sink_sent' # sink_sent
           /\ ~slots[Head(infos).data].exit_flag
           /\ ActionOf(slots[Head(infos).data].event) = "Read"
           /\ slots[Head(infos).data].buf = 0
           /\ Head(infos).res = 0)
          => ev_res'[slots[Head(infos).data].event] = 0
       /\ u_sent' # u_sent =>
            \A i \in 1..Len(u_cq) :
                (/\ ~IsExitCqe(u_cq[i])
                 /\ ActionOf(u_cq[i].user_data) = "Read"
                 /\ u_cq[i].res = 0)
                => u_res'[u_cq[i].user_data] = 0]_vars

\* C18: when the kernel completes one request with res < 0, that event and
\* only that event is recorded with the negated errno (res itself) and handed
\* to the worker sink; the results, slots and callbacks of every other event,
\* in flight or queued, are left as they were by that completion.
C18_KernelErrorIsolation ==
    [][/\ (/\ poll_pc = "process" /\ infos # <<>> /\ infos' # infos
           /\ ~slots[Head(infos).data].exit_flag
           /\ Head(infos).res < 0)
          => LET s == Head(infos).data
                 e == slots[s].event
             IN  /\ ev_res' = [ev_res EXCEPT ![e] = Head(infos).res]
                 /\ slots' = [slots EXCEPT ![s].event = NoEvent]
                 /\ sink_sent' = Append(sink_sent, e)
                 /\ cb_queue' = Append(cb_queue, e)
                 /\ cb_count' = cb_count
                 /\ kernel' = kernel /\ cq' = cq
                 /\ UNCHANGED <<prio_queue, read_queue, write_queue, iocbs>>
       /\ (u_cq # <<>> /\ u_cq' = <<>>)
          => /\ \A i \in 1..Len(u_cq) :
                    (~IsExitCqe(u_cq[i]) /\ u_cq[i].res < 0) =>
                        /\ u_res'[u_cq[i].user_data] = u_cq[i].res
                        /\ Occurrences(u_sent', u_cq[i].user_data)
                             = Occurrences(u_sent, u_cq[i].user_data) + 1
             /\ \A e \in Events :
                    (\A i \in 1..Len(u_cq) : u_cq[i].user_data # e) =>
                        /\ u_res'[e] = u_res[e]
                        /\ Occurrences(u_sent', e) = Occurrences(u_sent, e)
             /\ u_cb_count' = u_cb_count
             /\ UNCHANGED <<u_kernel, u_sq, u_queue, u_events>>]_vars

\* C18 witness: one event has reached the sink with the kernel's errno while
\* another request is still held by the kernel, in either driver
C18_Witness ==
    \/ \E e \in Events :
        /\ e \in SeqToSet(sink_sent) /\ ev_res[e] = -KernelErrno
        /\ \E s \in kernel : slots[s].event \in Events
    \/ \E e \in Events :
        /\ e \in SeqToSet(u_sent) /\ u_res[e] = -KernelErrno
        /\ u_kernel \cap Events # {}

(***************************************************************************)
(* Properties of the order of submission.  The producers of the model hand *)
(* the events over in the order of their numbers, so within one ingress    *)
(* queue a smaller number is the earlier event.                            *)
(***************************************************************************)
\* the position of x in the sequence q
IndexOf(q, x) == CHOOSE i \in 1..Len(q) : q[i] = x

\* AIO: the slots of iocbs that io_submit has not accepted yet
PendingIocbs == {iocbs[i] : i \in (done + 1)..Len(iocbs)}
InSlot(e) == \E s \in SlotIds : slots[s].event = e
SlotOf(e) == CHOOSE s \in SlotIds : slots[s].event = e
\* AIO: the submit thread has popped e from its queue
Taken(e) == hold = e \/ InSlot(e) \/ e \in SeqToSet(sink_sent)
\* AIO: io_submit has accepted the control block of e (no io_submit has failed)
Accepted(e) == e \in SeqToSet(sink_sent) \/ (InSlot(e) /\ SlotOf(e) \notin PendingIocbs)

\* io_uring: e has been pushed onto the submission queue
UPushed(e) ==
    \/ e \in SeqToSet(u_sq) \/ e \in u_kernel \/ e \in SeqToSet(u_sent)
    \/ \E i \in 1..Len(u_cq) : u_cq[i].user_data = e
\* io_uring: the submit thread has received e
UTaken(e) == UPushed(e) \/ e \in SeqToSet(u_events)

\* C19: if the submit thread receives e1 before e2 from the same ingress
\* queue, e1 is handed to the kernel before e2 (its place in the io_submit
\* array, its push onto the submission queue), across batches and partial
\* submits: no event overtakes an earlier one.  In the AIO driver the place in
\* the io_submit array is kept in every run, and while no submit call has
\* failed the kernel has accepted e1 whenever it has accepted e2; in the
\* io_uring driver the order of the pushes is kept while no submit call has
\* failed (after a failed ring.submit() an event that finds the queue full is
\* freed and never pushed).
C19_FifoSubmission ==
    /\ \A e1, e2 \in Events :
        (e1 < e2 /\ via[e1] = via[e2] /\ via[e1] # "none") =>
            /\ Taken(e2) => Taken(e1)
            /\ InSlot(e2) => (InSlot(e1) \/ e1 \in SeqToSet(sink_sent))
            /\ (/\ InSlot(e1) /\ SlotOf(e1) \in PendingIocbs
                /\ InSlot(e2) /\ SlotOf(e2) \in PendingIocbs)
               => IndexOf(iocbs, SlotOf(e1)) < IndexOf(iocbs, SlotOf(e2))
            /\ (faults = 0 /\ Accepted(e2)) => Accepted(e1)
    /\ u_faults = 0 =>
        \A e1, e2 \in Events :
            e1 < e2 =>
                /\ UTaken(e2) => UTaken(e1)
                /\ UPushed(e2) => UPushed(e1)
                /\ (e1 \in SeqToSet(u_events) /\ e2 \in SeqToSet(u_events))
                   => IndexOf(u_events, e1) < IndexOf(u_events, e2)
                /\ (e1 \in SeqToSet(u_sq) /\ e2 \in SeqToSet(u_sq))
                   => IndexOf(u_sq, e1) < IndexOf(u_sq, e2)
                /\ (UPushed(e2) /\ e2 \notin SeqToSet(u_sq)) => e1 \notin SeqToSet(u_sq)

\* C19 witness: a batch of two events of one queue is being submitted and the
\* kernel has accepted only the first (AIO), or a batch of two events sits in
\* the submission queue (io_uring)
C19_Witness ==
    \/ /\ faults = 0 /\ submit_pc = "sub" /\ done = 1 /\ Len(iocbs) = 2
       /\ via[slots[iocbs[1]].event] = via[slots[iocbs[2]].event]
    \/ /\ u_faults = 0
       /\ \E e1, e2 \in Events : e1 # e2 /\ e1 \in SeqToSet(u_sq) /\ e2 \in SeqToSet(u_sq)

(***************************************************************************)
(* Properties of MergeSubmitter::add_event.                                *)
(***************************************************************************)
\* C20: when add_event has to flush the stage before staging the incoming
\* event and that flush fails because the channel is closed, add_event returns
\* the error, the incoming event is not staged, and its callback is invoked
\* with the error recorded on it: the event is done, with a negative result,
\* when its callback runs.  (The incoming event is the one added last; the
\* only failing add_event that calls it back is the one whose first flush
\* failed.)
C20_PreFlushFailureRecorded ==
    (m_ret = "Err" /\ m_added # {} /\ cb_log[Cardinality(m_added)].count >= 1) =>
        /\ \A k \in 1..Len(merged_events) : merged_events[k].id # Cardinality(m_added)
        /\ IsDone(cb_log[Cardinality(m_added)].res)
        /\ cb_log[Cardinality(m_added)].res < 0

(***************************************************************************)
(* Properties of MergeBuffer::flush and MergeSubmitter::flush.             *)
(***************************************************************************)
\* the ids of the events of a list
Ids(tasks) == [k \in 1..Len(tasks) |-> tasks[k].id]

\* the step is an add_event or flush call in which Buffer::aligned failed
AllocFailedStep == m_faults' = m_faults + 1 /\ m_closed' = m_closed

\* the events staged when the allocation of that call failed: the stage of
\* before the call, with the incoming event when add_event had staged it
StagedAtFailure ==
    IF m_added' # m_added /\ Cardinality(m_added) + 1 \in SeqToSet(m_called')
    THEN Append(Ids(merged_events), Cardinality(m_added) + 1)
    ELSE Ids(merged_events)

\* C21: when a flush finds two or more staged events and the allocation of
\* the consolidated buffer fails, every staged event is recorded with -ENOMEM
\* and its callback runs exactly once, in staged order; no master is produced,
\* none of the staged events reaches the ingress channel, and none of them is
\* staged afterwards (an explicit flush sends nothing and leaves the stage
\* empty, with size 0).
C21_AllocFailure ==
    [][AllocFailedStep =>
        /\ Len(StagedAtFailure) >= 2
        /\ m_called' = StagedAtFailure
        /\ \A k \in 1..Len(StagedAtFailure) :
            /\ cb_log[StagedAtFailure[k]].count = 0
            /\ cb_log'[StagedAtFailure[k]].count = 1
            /\ cb_log'[StagedAtFailure[k]].res = -ENOMEM
        /\ SubSeq(m_chan', 1, Len(m_chan)) = m_chan
        /\ \A k \in (Len(m_chan) + 1)..Len(m_chan') :
            /\ m_chan'[k].sub_tasks = <<>>
            /\ m_chan'[k].id \notin SeqToSet(StagedAtFailure)
        /\ \A k \in 1..Len(merged_events') :
            merged_events'[k].id \notin SeqToSet(StagedAtFailure)
        /\ m_added' = m_added =>
            /\ m_chan' = m_chan
            /\ merged_events' = <<>> /\ merged_data_size' = 0]_vars

\* C21 witness: a call has called back three staged events with -ENOMEM and
\* left the stage empty
C21_Witness ==
    /\ Len(m_called) >= 3
    /\ \A k \in 1..Len(m_called) :
        cb_log[m_called[k]].count = 1 /\ cb_log[m_called[k]].res = -ENOMEM
    /\ merged_events = <<>>

\* the step is an add_event or a flush call of the producer
CallStep ==
    \/ m_added' # m_added
    \/ /\ m_added' = m_added /\ m_action' = m_action
       /\ merged_events # <<>> /\ merged_events' = <<>>

\* the id of the event an add_event step passes in
Incoming == Cardinality(m_added) + 1

\* the incoming event of the step was staged without a flush before it
StagedDirectly ==
    \E fd \in Fds : \E off \in 0..MaxOff : \E size \in 1..MaxSize :
        /\ ProducerAddAny(fd, off, size, TRUE)
        /\ size < merge_size_limit
        /\ MayAddEvent(Buffer, NewEvent(Incoming, fd, m_action, off, size),
                       merge_size_limit)

\* C22: when sending a flushed event (a single event or a master) fails
\* because the channel is closed, flush() / add_event return the error and
\* the submitter invokes no callback of an event that was staged in that
\* flush: not of the staged events of a flush() call, not of the events staged
\* before an add_event call whose flush fails to send, and not of the incoming
\* event when it had been staged.
C22_ChannelClosedOnForward ==
    [][(CallStep /\ m_ret' = "Err") =>
        /\ m_closed
        /\ m_chan' = m_chan
        /\ m_added' = m_added =>
            /\ m_called' = <<>>
            /\ \A k \in 1..Len(merged_events) : cb_log'[merged_events[k].id].count = 0
        /\ (m_added' # m_added /\ merged_events = <<>>) =>
            /\ m_called' = <<>>
            /\ cb_log'[Incoming].count = 0
        /\ (m_added' # m_added /\ merged_events # <<>> /\ m_faults' = m_faults) =>
            /\ \A k \in 1..Len(merged_events) :
                /\ merged_events[k].id \notin SeqToSet(m_called')
                /\ cb_log'[merged_events[k].id].count = 0
            /\ StagedDirectly =>
                /\ m_called' = <<>>
                /\ cb_log'[Incoming].count = 0
        /\ (m_added' # m_added /\ m_faults' # m_faults) =>
            /\ Incoming \notin SeqToSet(m_called')
            /\ cb_log'[Incoming].count = 0]_vars

\* C22 witness: a call has failed on the closed channel with the events of a
\* flush of three lost without a callback
C22_Witness ==
    /\ m_closed /\ m_ret = "Err" /\ m_called = <<>>
    /\ merged_events = <<>>
    /\ Cardinality(m_added) >= 3
    /\ \A i \in m_added : cb_log[i].count = 0 /\ i \notin w_done

(***************************************************************************)
(* Properties of the admission test and of the grouping it produces.       *)
(***************************************************************************)
\* the admission condition for an event of size size at offset off
Admissible(off, size) ==
    \/ merged_events = <<>>
    \/ /\ merged_data_size + size <= merge_size_limit
       /\ merged_offset + merged_data_size = off

\* C23: may_add_event(e) returns true iff the stage is empty, or staged_size +
\* e.size <= merge_size_limit and merge_start + staged_size = e.offset, for
\* every buffer the submitter reaches and every event; and add_event acts on
\* that answer without the test having changed the buffer: with a non-empty
\* stage, an event smaller than the limit is staged behind the staged events
\* (or flushed with them as the last child of their master) iff it is
\* admissible, and is staged alone after a flush of the others iff it is not.
C23_AdmissionTest ==
    /\ [](\A fd \in Fds : \A off \in 0..MaxOff : \A size \in 1..MaxSize :
            MayAddEvent(Buffer, NewEvent(Incoming, fd, m_action, off, size),
                        merge_size_limit)
                <=> Admissible(off, size))
    /\ [][\A fd \in Fds : \A off \in 0..MaxOff : \A size \in 1..MaxSize :
            (/\ ProducerAddAny(fd, off, size, TRUE)
             /\ merged_events # <<>> /\ size < merge_size_limit /\ ~m_closed) =>
                IF Admissible(off, size)
                THEN \/ /\ Ids(merged_events') = Append(Ids(merged_events), Incoming)
                        /\ merged_offset' = merged_offset
                        /\ merged_data_size' = merged_data_size + size
                        /\ m_chan' = m_chan
                     \/ /\ merged_events' = <<>>
                        /\ Len(m_chan') = Len(m_chan) + 1
                        /\ Ids(m_chan'[Len(m_chan')].sub_tasks)
                                = Append(Ids(merged_events), Incoming)
                ELSE /\ Ids(merged_events') = <<Incoming>>
                     /\ merged_offset' = off
                     /\ merged_data_size' = size
                     /\ Len(m_chan') = Len(m_chan) + 1
                     /\ Incoming \notin UserEvents(m_chan'[Len(m_chan')])]_vars

\* C23 witness: with two events staged, a third was refused for its size
\* although it was contiguous: the two left as a master and it is staged alone
C23_Witness ==
    /\ Len(merged_events) = 1
    /\ m_chan # <<>>
    /\ LET m == m_chan[Len(m_chan)] IN
        /\ Len(m.sub_tasks) = 2
        /\ merged_offset = m.offset + GetSize(m)
        /\ GetSize(m) < merge_size_limit
        /\ GetSize(m) + merged_data_size > merge_size_limit
        /\ merged_events[1].id = m.sub_tasks[2].id + 1

\* C24: (a) whenever add_event has returned Ok the staged size is strictly
\* less than merge_size_limit; (b) every master emitted has at least two
\* children and a total size <= merge_size_limit; (c) an event whose own size
\* is >= merge_size_limit is never staged with another event nor a child of a
\* master: the add_event that returns Ok for it has forwarded it alone, as the
\* event it was (same offset, buffer and callback), and one that returns Err
\* has forwarded nothing.
C24_MergeSizeBound ==
    /\ [](/\ m_ret = "Ok" => merged_data_size < merge_size_limit
          /\ merged_data_size = SeqSum(Sizes(merged_events))
          /\ \A k \in 1..Len(m_chan) :
                m_chan[k].sub_tasks # <<>> =>
                    /\ Len(m_chan[k].sub_tasks) >= 2
                    /\ GetSize(m_chan[k]) <= merge_size_limit
                    /\ \A i \in 1..Len(m_chan[k].sub_tasks) :
                        GetSize(m_chan[k].sub_tasks[i]) < merge_size_limit
          /\ \A k \in 1..Len(merged_events) :
                GetSize(merged_events[k]) < merge_size_limit)
    /\ [][\A fd \in Fds : \A off \in 0..MaxOff : \A size \in 1..MaxSize :
            \A alloc \in BOOLEAN :
            (ProducerAddAny(fd, off, size, alloc) /\ size >= merge_size_limit) =>
                /\ merged_events' = <<>>
                /\ m_ret' = "Ok" =>
                    /\ Len(m_chan') >= Len(m_chan) + 1
                    /\ m_chan'[Len(m_chan')] =
                            [NewEvent(Incoming, fd, m_action, off, size)
                                EXCEPT !.fd = SubmitterFd]
                /\ m_ret' = "Err" => m_chan' = m_chan]_vars

\* C24 witness: add_event has returned Ok with a master as large as the limit
\* and, behind it, an event as large as the limit forwarded alone
C24_Witness ==
    /\ m_ret = "Ok"
    /\ Len(m_chan) >= 2
    /\ m_chan[1].sub_tasks # <<>>
    /\ GetSize(m_chan[1]) = merge_size_limit
    /\ m_chan[2].sub_tasks = <<>>
    /\ GetSize(m_chan[2]) >= merge_size_limit

\* C25: flush on an empty stage returns nothing and sends nothing; flush with
\* exactly one staged event forwards that same event, with its offset, size,
\* buffer and callback unchanged and its fd set to the submitter's fd; flush
\* with two or more produces one master of the staged events (the allocation
\* succeeding, the channel open); in every case, failures included, the stage
\* is empty (length 0, size 0) when flush returns.
C25_FlushCases ==
    [][\A alloc \in BOOLEAN : ProducerFlush(alloc) =>
        /\ merged_events' = <<>> /\ merged_data_size' = 0
        /\ Len(merged_events) = 0 =>
            /\ m_chan' = m_chan
            /\ m_called' = <<>> /\ cb_log' = cb_log
            /\ m_ret' = "Ok"
        /\ (Len(merged_events) = 1 /\ ~m_closed) =>
            /\ m_chan' = Append(m_chan, [merged_events[1] EXCEPT !.fd = SubmitterFd])
            /\ m_called' = <<>> /\ cb_log' = cb_log
            /\ m_ret' = "Ok"
        /\ (Len(merged_events) >= 2 /\ alloc /\ ~m_closed) =>
            /\ Len(m_chan') = Len(m_chan) + 1
            /\ SubSeq(m_chan', 1, Len(m_chan)) = m_chan
            /\ m_chan'[Len(m_chan')].sub_tasks = merged_events
            /\ m_chan'[Len(m_chan')].fd = SubmitterFd
            /\ m_chan'[Len(m_chan')].offset = merged_offset
            /\ GetSize(m_chan'[Len(m_chan')]) = merged_data_size
            /\ m_called' = <<>> /\ cb_log' = cb_log
            /\ m_ret' = "Ok"]_vars

\* C25 witness: flush() has forwarded the only event added so far, which
\* add_event had left staged, with the submitter's fd
C25_Witness ==
    /\ Cardinality(m_added) = 1
    /\ merged_events = <<>> /\ merged_data_size = 0
    /\ Len(m_chan) = 1
    /\ m_chan[1].id = 1 /\ m_chan[1].sub_tasks = <<>>
    /\ GetSize(m_chan[1]) < merge_size_limit
    /\ m_chan[1].fd = SubmitterFd

\* the user events of a list of emitted events, in order
RECURSIVE Flat(_)
Flat(chan) ==
    IF chan = <<>> THEN <<>>
    ELSE (IF Head(chan).sub_tasks # <<>> THEN Head(chan).sub_tasks ELSE <<Head(chan)>>)
         \o Flat(Tail(chan))

\* the inputs so far, in emitted order, the staged ones last
Inputs == Flat(m_chan) \o merged_events

\* the group of input i: the position of the emitted event it is part of, the
\* stage counting as the group after the last emitted event
GroupOf(i) ==
    IF \E k \in 1..Len(m_chan) : i \in UserEvents(m_chan[k])
    THEN CHOOSE k \in 1..Len(m_chan) : i \in UserEvents(m_chan[k])
    ELSE Len(m_chan) + 1

\* the first input of the group of input i
FirstOf(i) == CHOOSE j \in 1..i :
    GroupOf(j) = GroupOf(i) /\ \A h \in 1..(j - 1) : GroupOf(h) # GroupOf(i)

\* the number of masters emitted
Masters == Cardinality({k \in 1..Len(m_chan) : m_chan[k].sub_tasks # <<>>})

\* C26: for a sequence of same-size events, add_event (and a final flush)
\* emits one event per maximal run of consecutive inputs that are
\* offset-contiguous and whose total size stays <= merge_size_limit: no input
\* is lost or reordered, input i + 1 is grouped with input i iff it continues
\* it and the run with it still fits, a run of one is emitted as the event
\* itself and a longer one as a master of the run's offset and total size;
\* after the final flush of N contiguous events, with the limit a multiple of
\* the size, at most ceil(N * size / limit) masters have been emitted.
C26_GreedyGrouping ==
    /\ Ids(Inputs) = [i \in 1..Cardinality(m_added) |-> i]
    /\ \A i \in 1..(Len(Inputs) - 1) :
        GroupOf(i + 1) = GroupOf(i) <=>
            /\ Inputs[i + 1].offset = Inputs[i].offset + IoSize
            /\ (i + 1 - FirstOf(i) + 1) * IoSize <= merge_size_limit
    /\ \A k \in 1..Len(m_chan) :
        LET f == FirstOf(CHOOSE i \in UserEvents(m_chan[k]) : TRUE)
            n == Cardinality(UserEvents(m_chan[k]))
        IN  /\ m_chan[k].offset = Inputs[f].offset
            /\ GetSize(m_chan[k]) = n * IoSize
            /\ n = 1 <=> m_chan[k].sub_tasks = <<>>
    /\ (/\ producer = "done"
        /\ merge_size_limit % IoSize = 0
        /\ \A i \in 1..(Len(Inputs) - 1) :
                Inputs[i + 1].offset = Inputs[i].offset + IoSize) =>
            (Masters - 1) * merge_size_limit < Len(Inputs) * IoSize

\* C26 witness: the blocks {0, 1, 3, 4} have left as two masters of two
\* blocks each, at the offsets of blocks 0 and 3
C26_Witness ==
    /\ producer = "done"
    /\ merged_events = <<>>
    /\ Len(m_chan) = 2
    /\ Len(m_chan[1].sub_tasks) = 2 /\ Len(m_chan[2].sub_tasks) = 2
    /\ m_chan[1].offset = 0 /\ GetSize(m_chan[1]) = 2 * IoSize
    /\ m_chan[2].offset = 3 * IoSize /\ GetSize(m_chan[2]) = 2 * IoSize

(***************************************************************************)
(* Properties of the result machinery of a request record.                 *)
(***************************************************************************)
\* C27: a freshly constructed event is not done (its result is the sentinel
\* i32::MIN); the first set_copied(n) makes it done with result n; every later
\* set_copied(m) adds m to the result; is_done() is true iff the result
\* differs from the sentinel.
C27_ResultAccumulation ==
    /\ [](/\ t_calls = <<>> => (t_res = I32_MIN /\ ~IsDone(t_res))
          /\ t_calls # <<>> => IsDone(t_res)
          /\ IsDone(t_res) <=> t_res # I32_MIN)
    /\ [][\A n \in 0..EvLen : TaskSetCopied(n) =>
            /\ t_calls = <<>> => t_res' = n
            /\ t_calls # <<>> => t_res' = t_res + n
            /\ IsDone(t_res')]_vars

\* C27 witness: two set_copied calls on a fresh event, the second one adding
C27_Witness ==
    /\ t_calls = <<[op |-> "set_copied", arg |-> EvLen], [op |-> "set_copied", arg |-> 1]>>
    /\ t_res = EvLen + 1

\* C28: after set_error(e), e >= 0, the event is done and its result is
\* negative: -EINVAL when e = 0, -e otherwise; get_write_result() and
\* get_result() then return Err with errno e (EINVAL for 0), whatever
\* set_copied had accumulated before.
C28_ErrorRecording ==
    /\ [][\A e \in {0, EINTR, KernelErrno, ENOMEM, EINVAL} : TaskSetError(e) =>
            /\ IsDone(t_res') /\ t_res' < 0
            /\ t_res' = IF e = 0 THEN -EINVAL ELSE -e]_vars
    /\ []((/\ t_ret.op # "none"
           /\ t_calls # <<>>
           /\ t_calls[Len(t_calls)].op = "set_error") =>
            /\ t_ret.ok = "Err"
            /\ t_ret.val = IF t_calls[Len(t_calls)].arg = 0
                            THEN EINVAL ELSE t_calls[Len(t_calls)].arg)

\* C28 witness: get_result() has returned Err(EINVAL) after set_error(0) on
\* an event that had recorded EvLen bytes
C28_Witness ==
    /\ t_calls = <<[op |-> "set_copied", arg |-> EvLen], [op |-> "set_error", arg |-> 0]>>
    /\ t_ret = [op |-> "get_result", ok |-> "Err", val |-> EINVAL]

(***************************************************************************)
(* Properties of continuation in the io_uring driver.                      *)
(***************************************************************************)
\* the events whose request is with the driver or the kernel
UInFlight == (SeqToSet(u_sq) \cup u_kernel) \ {ExitEvent}

\* C29: when an event whose result already records progress p, 0 < p < L, is
\* submitted again, the ring driver issues a request for exactly the
\* remainder (buffer base + p, length L - p, file offset + p), and on a
\* completion of r bytes the event's result becomes p + r, so that
\* 0 <= result <= L holds for every successful event.
C29_RingContinuation ==
    /\ [](/\ \A e \in UInFlight :
                (u_res[e] > 0 /\ u_res[e] < EvLen) =>
                    UringSqe(u_res[e]) = [offset |-> u_res[e], buf |-> u_res[e],
                                          len |-> EvLen - u_res[e]]
          /\ \A e \in Events : u_res[e] >= 0 => u_res[e] <= EvLen)
    /\ [][\A i \in 1..Len(u_cq) :
            (/\ u_cq' = <<>>
             /\ u_cq[i].user_data \in Events
             /\ u_cq[i].res >= 0
             /\ u_res[u_cq[i].user_data] > 0) =>
                u_res'[u_cq[i].user_data] = u_res[u_cq[i].user_data] + u_cq[i].res]_vars

\* C29 witness: an event transferred in two parts has been called back twice
\* and records the whole buffer
C29_Witness ==
    \E e \in Events :
        /\ u_cb_count[e] = 2
        /\ u_res[e] = EvLen
        /\ Occurrences(u_sent, e) = 2

(***************************************************************************)
(* Deadlock freedom of the AIO engine.                                     *)
(***************************************************************************)
\* a step of the submit thread, of the poll thread, of the kernel or of a
\* worker: every action of the engine but the producers' calls and the
\* failures of system calls
EngineStep ==
    \/ SubmitWakeup
    \/ SubmitSkipWait
    \/ SubmitClosed
    \/ SubmitPop
    \/ SubmitPush
    \/ SubmitFillDone
    \/ SubmitFetchSub
    \/ \E k \in 1..Depth : SubmitIoAccept(k)
    \/ SubmitExitSlot
    \/ SubmitExitIo(TRUE)
    \/ SubmitExitSub
    \/ \E s \in SlotIds : \E res \in (-KernelErrno)..EvLen : KernelComplete(s, res)
    \/ PollGetEvents
    \/ PollNoEvents
    \/ PollProcess(TRUE)
    \/ WorkerRecv

\* events handed to the engine whose callback has not run
Undelivered == {e \in Handed : cb_count[e] = 0}

\* C30: deadlock freedom.  With the context alive and no failing system call,
\* whenever an event handed to the engine is still undelivered, some thread of
\* the engine (submit thread, poll thread, kernel, worker) can take a step
\* that changes the state; in particular the submit thread waiting for a free
\* slot with filled, unsubmitted slots in its batch is never left without
\* anyone able to move.
C30_DeadlockFree ==
    (Undelivered # {} /\ ~dropped /\ faults = 0) => ENABLED <<EngineStep>>_vars

(***************************************************************************)
(* Slots of the AIO driver.                                                *)
(***************************************************************************)
\* bytes of its event already transferred through slot s
Progress(s) == EvLen - slots[s].nbytes

\* C31: AIO resume rebias.  Whenever the kernel holds the control block of a
\* user event, first submission or resume after short transfers of k bytes in
\* all, its buffer pointer is the buffer base plus k, its byte count is L - k
\* and its file offset is the event's offset plus k, so that every byte of
\* the event is transferred once, at its own file position.
C31_AioResumeRebias ==
    \A s \in kernel :
        slots[s].event \in Events =>
            /\ slots[s].buf = Progress(s)
            /\ slots[s].offset = EventOffset(slots[s].event) + Progress(s)

\* neither driver thread is inside a submit step (between the fetch_sub and
\* the outcome of io_submit) or a reap step (between io_getevents and the last
\* completion of its batch)
DriverQuiet ==
    /\ submit_pc \in {"top", "fill", "push", "exit_slot", "done"}
    /\ poll_pc \in {"getevents", "exited"}

\* C32: free-slot accounting.  With no failing system call, whenever neither
\* driver thread is in the middle of a submit or reap step, free_slots_count
\* is depth minus the number of slots whose request the kernel has accepted
\* and that is not finally completed, a slot under resume counted among them;
\* and the exit test of the poll thread (not running and free_slots_count =
\* depth) is true only when nothing is in flight.
C32_FreeSlotAccounting ==
    (DriverQuiet /\ faults = 0) =>
        /\ free_slots_count = Depth - Cardinality(InFlight)
        /\ (~running /\ free_slots_count = Depth) => InFlight = {}

\* C33: slot conservation.  With the context alive and no failing system call,
\* in every reachable state the slot indices on the free-slot channel, the slots taken by the
\* submit thread and not yet submitted and the slots in flight add up to
\* depth: the slot of a finished event is back on the free-slot channel.
C33_SlotConservation ==
    (faults = 0 /\ ~dropped) =>
        Len(free_chan) + Cardinality(PendingIocbs \ InFlight) + Cardinality(InFlight) = Depth

\* slots the submit thread still works on: filled and not yet handed to
\* io_submit (after the io_submit of the exit signal it touches none)
SubmitTouches == IF submit_pc = "exit_sub" THEN {} ELSE PendingIocbs

\* C34: slot exclusivity.  A slot index on the free-slot channel names a slot
\* that holds no event and is neither in flight (resumed slots included) nor
\* in the submit thread's batch; the slots the submit thread works on are
\* never at the same time in the kernel or with the poll thread; and the
\* submit thread puts an event only into a slot that holds none and is not in
\* flight.
C34_SlotExclusivity ==
    /\ [](/\ \A i \in 1..Len(free_chan) :
                /\ slots[free_chan[i]].event = NoEvent
                /\ free_chan[i] \notin (InFlight \cup SubmitTouches)
                /\ \A j \in 1..Len(free_chan) : free_chan[j] = free_chan[i] => j = i
          /\ SubmitTouches \cap InFlight = {})
    /\ [][\A s \in SlotIds :
            (slots'[s].event # slots[s].event /\ slots'[s].event # NoEvent) =>
                (slots[s].event = NoEvent /\ s \notin InFlight)]_vars

\* the submit thread has filled a slot while another slot, resumed after a
\* short transfer, is in the kernel
C34_Witness ==
    /\ submit_pc = "fill" /\ PendingIocbs # {}
    /\ \E s \in kernel : slots[s].event \in Events /\ slots[s].nbytes < EvLen

\* the control blocks the step hands to the kernel
NewlyAccepted == kernel' \ kernel

\* C35: partial submit.  Inside the submit loop a positive number of control
\* blocks is always left; the fetch_sub takes `left` from free_slots_count;
\* every return of io_submit that accepts k blocks accepts the next k blocks
\* of the batch, none of them accepted before, and gives left - k back to the
\* counter, so that the counter goes down by exactly the number accepted; a
\* partial accept and EINTR go round the loop again with the rest of the
\* batch, a full accept ends the loop, and any other error gives the whole
\* tail back to the counter and ends the loop.
C35_PartialSubmit ==
    /\ [](submit_pc \in {"sub", "io"} =>
            /\ 0 <= done /\ done < Len(iocbs)
            /\ PendingIocbs \cap InFlight = {})
    /\ [][(submit_pc = "sub" /\ submit_pc' = "io") =>
            free_slots_count' = free_slots_count - left]_vars
    /\ [][(submit_pc = "io" /\ submit_pc' # "io") =>
            LET k == Cardinality(NewlyAccepted) IN
                /\ NewlyAccepted = {iocbs[i] : i \in (done + 1)..(done + k)}
                /\ NewlyAccepted \cap InFlight = {}
                /\ free_slots_count' = free_slots_count + (left - k)
                /\ k = left => (submit_pc' = "top" /\ iocbs' = <<>>)
                /\ (0 < k /\ k < left) =>
                      (submit_pc' = "sub" /\ done' = done + k /\ iocbs' = iocbs)
                /\ SubmitIoFail(EINTR) =>
                      (k = 0 /\ submit_pc' = "sub" /\ done' = done /\ iocbs' = iocbs)
                /\ SubmitIoFail(KernelErrno) =>
                      (k = 0 /\ submit_pc' = "top" /\ iocbs' = <<>>)]_vars

\* a full batch after a partial accept: the tail is about to be submitted
C35_Witness == submit_pc = "io" /\ done > 0 /\ Len(iocbs) = Depth

(***************************************************************************)
(* The shutdown sentinel of both drivers.                                  *)
(***************************************************************************)
\* the AIO submit thread has called io_submit on the exit signal
AioSentinelSubmitted == submit_pc \in {"exit_sub", "done"}

\* the io_uring submit thread has pushed the exit NOP (it exits right after)
UringSentinelPushed == u_submit_pc = "exited"

\* the sentinel entries the ring holds
UringSentinels ==
    Occurrences(u_sq, ExitEvent)
      + (IF ExitEvent \in u_kernel THEN 1 ELSE 0)
      + Cardinality({i \in 1..Len(u_cq) : u_cq[i].user_data = ExitEvent})

C37_RingAccessDiscipline ==
    [][/\ u_sq' # u_sq => u_submit_pc' # u_submit_pc
       /\ Len(u_cq') < Len(u_cq) => u_complete_pc' # u_complete_pc]_vars

(***************************************************************************)
(* The payload of a Write master.                                          *)
(***************************************************************************)
\* the place of child i in the buffer of its master: the sizes before it
ChildPos(tasks, i) == SeqSum(SubSeq(Sizes(tasks), 1, i - 1))

\* C38: the buffer of a Write master is the concatenation of its children's
\* buffers in staged order: child i's bytes are the master's bytes
\* [p_i, p_i + size_i), p_i the sum of the sizes of the children before it;
\* and every child still has the buffer it was created with.
C38_WriteMasterPayload ==
    \A k \in 1..Len(m_chan) :
        (m_chan[k].sub_tasks # <<>> /\ m_chan[k].action = "Write") =>
            LET m == m_chan[k] IN
                /\ Len(m.buf) = SeqSum(Sizes(m.sub_tasks))
                /\ \A i \in 1..Len(m.sub_tasks) :
                    LET c == m.sub_tasks[i] IN
                        /\ SubSeq(m.buf, ChildPos(m.sub_tasks, i) + 1,
                                  ChildPos(m.sub_tasks, i) + GetSize(c)) = c.buf
                        /\ c.buf = PayloadBuf(c.offset, GetSize(c))

\* a Write master of children of different sizes is in the channel
C38_Witness ==
    \E k \in 1..Len(m_chan) :
        /\ m_chan[k].action = "Write"
        /\ Len(m_chan[k].sub_tasks) >= 2
        /\ GetSize(m_chan[k].sub_tasks[1]) # GetSize(m_chan[k].sub_tasks[2])

(***************************************************************************)
(* Conservation of the merge submitter's inputs.                           *)
(***************************************************************************)
\* what an event keeps of its own through the submitter
Core(ev) == [id |-> ev.id, offset |-> ev.offset, buf |-> ev.buf, cb |-> ev.cb]
Cores(tasks) == [k \in 1..Len(tasks) |-> Core(tasks[k])]

\* C39: merge conservation.  While every call returns Ok (no allocation
\* failure, channel open), the emitted events flattened in emission order (a
\* single event as itself, a master as its children in order), followed by the
\* staged ones, are the inputs in input order: add_event appends the incoming
\* event with its own buffer, offset and callback to that sequence and changes
\* nothing else in it, flush leaves the sequence as it is and the stage empty;
\* no event is in it twice.
C39_MergeConservation ==
    /\ []((m_faults = 0 /\ ~m_closed) =>
            \A i, j \in 1..Len(Inputs) : i < j => Inputs[i].id < Inputs[j].id)
    /\ [][(m_faults' = 0 /\ ~m_closed') =>
            /\ \A fd \in Fds : \A off \in 0..MaxOff : \A size \in 1..MaxSize :
                ProducerAddAny(fd, off, size, TRUE) =>
                    /\ m_ret' = "Ok"
                    /\ Cores(Inputs') =
                         Append(Cores(Inputs),
                                Core(NewEvent(Cardinality(m_added) + 1, fd, m_action, off, size)))
            /\ ProducerFlush(TRUE) =>
                    /\ m_ret' = "Ok"
                    /\ merged_events' = <<>>
                    /\ Cores(Inputs') = Cores(Inputs)]_vars

\* three inputs have left the submitter, two of them in a master, nothing is
\* staged and no call has failed
C39_Witness ==
    /\ m_faults = 0 /\ ~m_closed /\ m_ret = "Ok"
    /\ merged_events = <<>>
    /\ Len(m_chan) = 2 /\ Len(Flat(m_chan)) = 3
    /\ Ids(Flat(m_chan)) = <<1, 2, 3>>

(***************************************************************************)
(* Wakeups at the ingress of the queue-based context.                      *)
(***************************************************************************)
\* the events in the three queues
QueuedW == SeqToSet(q_prio) \cup SeqToSet(q_read) \cup SeqToSet(q_write)

\* the producers that are at position pc of a submit call to channel ch
Mid(pc, chs) == Cardinality({p \in Producers : q_pc[p] = pc /\ q_ch[p] \in chs})

\* the submit thread has popped from queue name and not yet decremented its counter
Popping(name) == IF q_spc = "dec_count" /\ StageQueue = name THEN 1 ELSE 0

====
